---- MODULE Spec2Model ----
(***************************************************************************)
(* Verification model of the PQC-LEO result parsers:                       *)
(*   scripts/parsing-scripts/liboqs_parse.py                               *)
(*   scripts/parsing_scripts/internal_scripts/tls_performance_data_parse.py*)
(*   scripts/parsing-scripts/oqs_provider_parse.py                         *)
(*                                                                         *)
(* Python strings are modelled as sequences of one-character strings, so   *)
(* that startswith, "in", split, replace and slicing are computed on the   *)
(* characters as the interpreter computes them.  A text file is a record   *)
(* [exists, lines]; lines carry no line terminator.                        *)
(***************************************************************************)
EXTENDS Integers, Sequences, FiniteSets, TLC

(***************************************************************************)
(* Bounds of the model                                                     *)
(***************************************************************************)
MaxPeakLines == 3

MaxLogLines == 3

MaxAlgs == 2

MaxRuns == 2

MaxDamaged == 1

\* lines of an s_speed output file given to get_speed_metrics
MaxSpeedLines == 3

\* row counts given to check_data_mismatch
MaxDfLen == 12

\* alg-list lengths given to check_data_mismatch
MaxListLen == 4

\* Machine-IDs with parsed results under results_dir
MaxMachines == 2

\* answers typed at the prompt of handle_results_dir_creation that are not an option
MaxAnswers == 2

(***************************************************************************)
(* String primitives                                                       *)
(***************************************************************************)
Digits == {"0", "1", "2", "3", "4", "5", "6", "7", "8", "9"}

DigitChars == <<"0", "1", "2", "3", "4", "5", "6", "7", "8", "9">>

IsDigit(c) == c \in Digits

DigitVal(c) == CHOOSE d \in 0..9 : DigitChars[d + 1] = c

RECURSIVE ParseInt(_)
ParseInt(s) ==
    IF s = <<>> THEN 0
    ELSE ParseInt(SubSeq(s, 1, Len(s) - 1)) * 10 + DigitVal(s[Len(s)])

RECURSIVE DigitsOf(_)
DigitsOf(n) ==
    IF n < 10 THEN <<DigitChars[n + 1]>>
    ELSE DigitsOf(n \div 10) \o <<DigitChars[(n % 10) + 1]>>

RECURSIVE PadLeft(_, _)
PadLeft(s, width) ==
    IF Len(s) >= width THEN s ELSE PadLeft(<<" ">> \o s, width)

StartsWith(s, prefix) ==
    /\ Len(s) >= Len(prefix)
    /\ SubSeq(s, 1, Len(prefix)) = prefix

Contains(s, sub) ==
    \E i \in 1..(Len(s) - Len(sub) + 1) : SubSeq(s, i, i + Len(sub) - 1) = sub

RemoveChar(s, ch) == SelectSeq(s, LAMBDA c : c # ch)

RECURSIVE SplitFrom(_, _)
SplitFrom(s, cur) ==
    IF s = <<>> THEN (IF cur = <<>> THEN <<>> ELSE <<cur>>)
    ELSE IF Head(s) = " "
         THEN (IF cur = <<>> THEN SplitFrom(Tail(s), <<>>)
                             ELSE <<cur>> \o SplitFrom(Tail(s), <<>>))
         ELSE SplitFrom(Tail(s), Append(cur, Head(s)))

Split(s) == SplitFrom(s, <<>>)

SetMin(S) == CHOOSE x \in S : \A y \in S : x <= y

MissingFile == [exists |-> FALSE, lines |-> <<>>]

TextFile(ls) == [exists |-> TRUE, lines |-> ls]

RECURSIVE SeqsUpTo(_, _)
SeqsUpTo(S, n) ==
    IF n = 0 THEN {<<>>}
    ELSE LET shorter == SeqsUpTo(S, n - 1)
         IN shorter \cup {Append(q, x) : q \in {r \in shorter : Len(r) = n - 1}, x \in S}

(***************************************************************************)
(* liboqs_parse.get_peak                                                   *)
(***************************************************************************)
HeaderPrefix ==
    <<" ", "D", "e", "t", "a", "i", "l", "e", "d", " ", "s", "n", "a", "p", "s", "h", "o", "t", "s", ":", " ", "[">>

PeakMarker ==
    <<" ", "(", "p", "e", "a", "k", ")">>

DigitRunEnd(line, i) ==
    CHOOSE j \in i..Len(line) :
        /\ \A k \in i..j : IsDigit(line[k])
        /\ (j = Len(line) \/ ~IsDigit(line[j + 1]))

\* start positions at which  \d+ \(peak\).*  matches
PeakMatchStarts(line) ==
    {i \in 1..Len(line) :
        /\ IsDigit(line[i])
        /\ StartsWith(SubSeq(line, DigitRunEnd(line, i) + 1, Len(line)), PeakMarker)}

\* re.search(r"\d+ \(peak\).*", line) is not None
PeakSearch(line) == PeakMatchStarts(line) # {}

\* int(match.group(0).split()[0])
PeakOfMatch(line) ==
    ParseInt(Split(SubSeq(line, SetMin(PeakMatchStarts(line)), Len(line)))[1])

FormatPeakUnpadded(peak) == DigitsOf(peak)

\* '{: >3d}'.format(peak)
FormatPeak(peak) == PadLeft(DigitsOf(peak), 3)

PeakNone == [kind |-> "none", val |-> <<>>]

PeakRaise == [kind |-> "raise", val |-> <<>>]

PeakReturn(fields) == [kind |-> "return", val |-> fields]

PeakAfterLineFirstNumber(line, peak) ==
    IF StartsWith(line, HeaderPrefix) /\ PeakSearch(line)
    THEN LET i == SetMin({k \in 1..Len(line) : IsDigit(line[k])})
         IN ParseInt(SubSeq(line, i, DigitRunEnd(line, i)))
    ELSE peak

\* the peak index after the header test of one line
PeakAfterLine(line, peak) ==
    IF StartsWith(line, HeaderPrefix) /\ PeakSearch(line)
    THEN PeakOfMatch(line)
    ELSE peak

\* if (peak > 0):
PeakGuard(peak) == peak > 0

\* line.startswith('{: >3d}'.format(peak))
RecordMatches(line, peak) == StartsWith(line, FormatPeak(peak))

RECURSIVE GetPeakScan(_, _, _)
GetPeakScan(lines, i, peak) ==
    IF i > Len(lines) THEN PeakNone
    ELSE LET line == lines[i]
             peak1 == PeakAfterLine(line, peak)
         IN IF PeakGuard(peak1) /\ RecordMatches(line, peak1)
            THEN PeakReturn(Tail(Split(RemoveChar(line, ","))))
            ELSE GetPeakScan(lines, i + 1, peak1)

get_peak_swallowing(mem_file) ==
    IF ~mem_file.exists THEN PeakNone
    ELSE GetPeakScan(mem_file.lines, 1, -1)

\* with open(mem_file, "r") raises when the file does not exist
get_peak(mem_file) ==
    IF ~mem_file.exists THEN PeakRaise
    ELSE GetPeakScan(mem_file.lines, 1, -1)

(***************************************************************************)
(* Lines of ms_print snapshot files used as inputs of get_peak             *)
(***************************************************************************)
HdrPeak1 ==
    <<" ", "D", "e", "t", "a", "i", "l", "e", "d", " ", "s", "n", "a", "p", "s", "h", "o", "t", "s", ":", " ", "[", "1", " ", "(", "p", "e", "a", "k", ")", "]">>

HdrPeak0 ==
    <<" ", "D", "e", "t", "a", "i", "l", "e", "d", " ", "s", "n", "a", "p", "s", "h", "o", "t", "s", ":", " ", "[", "0", " ", "(", "p", "e", "a", "k", ")", "]">>

HdrPeak12 ==
    <<" ", "D", "e", "t", "a", "i", "l", "e", "d", " ", "s", "n", "a", "p", "s", "h", "o", "t", "s", ":", " ", "[", "2", ",", " ", "1", "2", " ", "(", "p", "e", "a", "k", ")", "]">>

HdrPeak100 ==
    <<" ", "D", "e", "t", "a", "i", "l", "e", "d", " ", "s", "n", "a", "p", "s", "h", "o", "t", "s", ":", " ", "[", "1", "0", "0", " ", "(", "p", "e", "a", "k", ")", "]">>

HdrNoPeak ==
    <<" ", "D", "e", "t", "a", "i", "l", "e", "d", " ", "s", "n", "a", "p", "s", "h", "o", "t", "s", ":", " ", "[", "2", "]">>

Rec0 ==
    <<" ", " ", "0", " ", "0", " ", "0", " ", "0", " ", "0", " ", "0">>

Rec1 ==
    <<" ", " ", "1", " ", "9", " ", "1", ",", "0", "2", "4", " ", "8", " ", "0", " ", "0">>

Rec2 ==
    <<" ", " ", "2", " ", "5", " ", "6", " ", "7", " ", "8", " ", "9">>

Rec12 ==
    <<" ", "1", "2", " ", "7", " ", "2", ",", "0", "4", "8", " ", "6", " ", "5", " ", "0">>

Rec100 ==
    <<"1", "0", "0", " ", "4", " ", "4", " ", "4", " ", "4", " ", "4">>

Tree100 ==
    <<"1", "0", "0", ".", "0", "0", "%", " ", "(", "8", "B", ")">>

PeakLines ==
    {HdrPeak1, HdrPeak0, HdrPeak12, HdrPeak100, HdrNoPeak,
     Rec0, Rec1, Rec2, Rec12, Rec100, Tree100}

PeakFiles ==
    {MissingFile} \cup {TextFile(ls) : ls \in SeqsUpTo(PeakLines, MaxPeakLines)}

(***************************************************************************)
(* get_metrics (tls_performance_data_parse.py and oqs_provider_parse.py)   *)
(***************************************************************************)
ReuseWord ==
    <<"r", "e", "u", "s", "e">>

ConnectionsWord ==
    <<"c", "o", "n", "n", "e", "c", "t", "i", "o", "n", "s">>

UserWord ==
    <<"u", "s", "e", "r">>

RealWord ==
    <<"r", "e", "a", "l">>

FirstUserLine ==
    <<"1", "0", " ", "c", "o", "n", "n", "e", "c", "t", "i", "o", "n", "s", " ", "i", "n", " ", "0", ".", "0", "5", "s", ";", " ", "2", "0", "0", ".", "0", "0", " ", "c", "o", "n", "n", "e", "c", "t", "i", "o", "n", "s", "/", "u", "s", "e", "r", " ", "s", "e", "c">>

FirstRealLine ==
    <<"1", "0", " ", "c", "o", "n", "n", "e", "c", "t", "i", "o", "n", "s", " ", "i", "n", " ", "6", " ", "r", "e", "a", "l", " ", "s", "e", "c", "o", "n", "d", "s">>

ReuseMarkerLine ==
    <<"N", "o", "w", " ", "t", "i", "m", "i", "n", "g", " ", "w", "i", "t", "h", " ", "s", "e", "s", "s", "i", "o", "n", " ", "i", "d", " ", "r", "e", "u", "s", "e", ".">>

ReuseUserLine ==
    <<"1", "5", " ", "c", "o", "n", "n", "e", "c", "t", "i", "o", "n", "s", " ", "i", "n", " ", "0", ".", "0", "2", "s", ";", " ", "7", "5", "0", ".", "0", "0", " ", "c", "o", "n", "n", "e", "c", "t", "i", "o", "n", "s", "/", "u", "s", "e", "r", " ", "s", "e", "c">>

ReuseRealLine ==
    <<"1", "5", " ", "c", "o", "n", "n", "e", "c", "t", "i", "o", "n", "s", " ", "i", "n", " ", "7", " ", "r", "e", "a", "l", " ", "s", "e", "c", "o", "n", "d", "s">>

ShortUserLine ==
    <<"1", "0", " ", "c", "o", "n", "n", "e", "c", "t", "i", "o", "n", "s", " ", "i", "n", " ", "u", "s", "e", "r">>

ShortRealLine ==
    <<"1", "0", " ", "c", "o", "n", "n", "e", "c", "t", "i", "o", "n", "s", " ", "r", "e", "a", "l">>

LogLines ==
    {FirstUserLine, FirstRealLine, ReuseMarkerLine, ReuseUserLine,
     ReuseRealLine, ShortUserLine, ShortRealLine}

\* the output of one s_time run: a first-use block, then a reuse block
TwoBlockLog ==
    <<FirstUserLine, FirstRealLine, ReuseMarkerLine, ReuseUserLine, ReuseRealLine>>

\* the two-block log with one line lost or overwritten
DamagedLogs ==
    {SubSeq(TwoBlockLog, 1, i - 1) \o SubSeq(TwoBlockLog, i + 1, 5) : i \in 1..5}
    \cup {[TwoBlockLog EXCEPT ![i] = l] : i \in 1..5, l \in LogLines}

LogFiles ==
    {MissingFile}
    \cup {TextFile(ls) : ls \in SeqsUpTo(LogLines, MaxLogLines)}
    \cup {TextFile(ls) : ls \in DamagedLogs}

KemName == <<"k">>

\* current_row = [kem, ""] for the first-use call, [kem, "*"] for the reuse call
InputRow(reuse) == <<KemName, IF reuse THEN <<"*">> ELSE <<>>>>

ReuseSeenThisLine(line, flag) == Contains(line, ReuseWord)

\* if "reuse" in line: session_metrics_flag = True
ReuseSeen(line, flag) == flag \/ Contains(line, ReuseWord)

\* "connections" in line and "user" in line
IsUserLine(line) == Contains(line, ConnectionsWord) /\ Contains(line, UserWord)

\* "connections" in line and "real" in line
IsRealLine(line) == Contains(line, ConnectionsWord) /\ Contains(line, RealWord)

CaptureAnyBlock(flag, reuse) == reuse \/ ~flag

\* (flag is False and get_reuse_metrics is False) or
\* (flag is True and get_reuse_metrics is True)
CaptureBlock(flag, reuse) == (~flag /\ ~reuse) \/ (flag /\ reuse)

\* s[:-2]
DropLast2(s) == SubSeq(s, 1, Len(s) - 2)

\* the appends of the user branch that happen before it ends or raises
UserAppends(t) ==
    IF Len(t) < 1 THEN <<>>
    ELSE IF Len(t) < 4 THEN <<t[1]>>
    ELSE IF Len(t) < 5 THEN <<t[1], DropLast2(t[4])>>
    ELSE <<t[1], DropLast2(t[4]), t[5]>>

\* separated_line[4] is the highest index read by the user branch
UserRaises(t) == Len(t) < 5

RealAppendsCountOnly(t) == IF Len(t) < 1 THEN <<>> ELSE <<t[1]>>

\* the appends of the real branch that happen before it ends or raises
RealAppends(t) ==
    IF Len(t) < 1 THEN <<>>
    ELSE IF Len(t) < 4 THEN <<t[1]>>
    ELSE <<t[1], t[4]>>

\* separated_line[3] is the highest index read by the real branch
RealRaises(t) == Len(t) < 4

NoCapture(flag) ==
    [flag |-> flag, fields |-> <<>>, raised |-> FALSE, brk |-> FALSE]

\* one iteration of  for line in test_file
LineStep(line, flag, reuse) ==
    LET flag1 == ReuseSeen(line, flag)
        t == Split(line)
    IN IF IsUserLine(line)
       THEN IF CaptureBlock(flag1, reuse)
            THEN [flag |-> flag1, fields |-> UserAppends(t),
                  raised |-> UserRaises(t), brk |-> FALSE]
            ELSE NoCapture(flag1)
       ELSE IF IsRealLine(line)
       THEN IF CaptureBlock(flag1, reuse)
            THEN [flag |-> flag1, fields |-> RealAppends(t),
                  raised |-> RealRaises(t),
                  brk |-> ~RealRaises(t) /\ ~reuse]
            ELSE NoCapture(flag1)
       ELSE NoCapture(flag1)

PlaceholderShort == <<<<>>, <<>>, <<>>, <<>>>>

\* for _ in range(1,6): current_row.append("")
Placeholder == <<<<>>, <<>>, <<>>, <<>>, <<>>>>

(***************************************************************************)
(* liboqs_parse: manifests, artifacts and the table assembler              *)
(***************************************************************************)
AlgA == <<"a">>

AlgB == <<"b">>

\* the algorithm names that occur in alg-list files and in up-results
Algs == {AlgA, AlgB}

Families == {"kem", "sig"}

\* the contents an alg-list file can have (one name per line, order kept)
Manifests == SeqsUpTo(Algs, MaxAlgs) \ {<<>>}

Range(q) == {q[k] : k \in 1..Len(q)}

OpKeygen ==
    <<"k", "e", "y", "g", "e", "n">>

OpEncaps ==
    <<"e", "n", "c", "a", "p", "s">>

OpDecaps ==
    <<"d", "e", "c", "a", "p", "s">>

OpKeypair ==
    <<"k", "e", "y", "p", "a", "i", "r">>

OpSign ==
    <<"s", "i", "g", "n">>

OpVerify ==
    <<"v", "e", "r", "i", "f", "y">>

alg_operations_reversed(family) ==
    IF family = "kem" THEN <<OpDecaps, OpEncaps, OpKeygen>>
    ELSE <<OpVerify, OpSign, OpKeypair>>

\* alg_operations of process_tests
alg_operations(family) ==
    IF family = "kem" THEN <<OpKeygen, OpEncaps, OpDecaps>>
    ELSE <<OpKeypair, OpSign, OpVerify>>

\* fieldnames of memory_processing
fieldnames ==
    <<"Algorithm", "Operation", "intits", "maxBytes", "maxHeap", "extHeap", "maxStack">>

\* the placeholder built when get_peak returns None:
\*   KEM loop: for _ in range(1, (len(fieldnames) - 2))
\*   sig loop: for _ in range(0, (len(fieldnames) - 2))
BlankMetrics(family) ==
    IF family = "kem"
    THEN [k \in 1..(Len(fieldnames) - 2 - 1) |-> <<>>]
    ELSE [k \in 1..(Len(fieldnames) - 2) |-> <<>>]

RowFitsNever(row) == FALSE

\* mem_results_df.loc[len(mem_results_df)] = new_row  raises ValueError
\* unless the row has one value per column
RowFits(row) == Len(row) = Len(fieldnames)

\* a snapshot file with its peak record, one whose record was never written
CompleteFile == TextFile(<<HdrPeak12, Rec2, Rec12>>)

TruncatedFile == TextFile(<<HdrPeak12, Rec2>>)

FileOf(kind) ==
    IF kind = "complete" THEN CompleteFile
    ELSE IF kind = "truncated" THEN TruncatedFile
    ELSE MissingFile

\* the body of the try block of one (algorithm, operation) iteration and its
\* except handler, which only prints
MemIteration(family, alg, opname, mem_file, row, metrics, df) ==
    LET r == get_peak(mem_file)
    IN IF r.kind = "raise"
       THEN [new_row |-> row, peak_metrics |-> metrics, df |-> df]
       ELSE LET pm == IF r.kind = "none" THEN BlankMetrics(family) ELSE r.val
                row2 == row \o <<alg, opname>> \o pm
            IN IF RowFits(row2)
               THEN [new_row |-> <<>>, peak_metrics |-> <<>>, df |-> Append(df, row2)]
               ELSE [new_row |-> row2, peak_metrics |-> pm, df |-> df]

check_data_mismatch_too_many(df_len, alg_list_len) == df_len > (alg_list_len * 3)

\* check_data_mismatch: TRUE when it prints the error and calls sys.exit(1)
check_data_mismatch(df_len, alg_list_len) == df_len # (alg_list_len * 3)

\* str.strip()
RECURSIVE StripLeft(_)
StripLeft(s) == IF s # <<>> /\ Head(s) = " " THEN StripLeft(Tail(s)) ELSE s

RECURSIVE StripRight(_)
StripRight(s) ==
    IF s # <<>> /\ s[Len(s)] = " " THEN StripRight(SubSeq(s, 1, Len(s) - 1)) ELSE s

Strip(s) == StripLeft(StripRight(s))

\* the Operation column of a pre-processed speed file written for the
\* algorithm list tested: per algorithm a name row and three operation rows
RECURSIVE SpeedRows(_, _)
SpeedRows(family, tested) ==
    IF tested = <<>> THEN <<>>
    ELSE <<Head(tested) \o <<" ">>,
           alg_operations(family)[1] \o <<" ">>,
           alg_operations(family)[2] \o <<" ">>,
           alg_operations(family)[3] \o <<" ">>>>
         \o SpeedRows(family, Tail(tested))

\* temp_df.loc[~temp_df['Operation'].str.strip().isin(algs)], then strip
FilterOperations(cells, algs) ==
    LET kept == SelectSeq(cells, LAMBDA c : Strip(c) \notin Range(algs))
    IN [k \in 1..Len(kept) |-> Strip(kept[k])]

\* [alg for alg in algs for _ in range(3)]
new_col(algs) == [k \in 1..(3 * Len(algs)) |-> algs[((k - 1) \div 3) + 1]]

\* temp_df.insert(0, "Algorithm", new_col): the table that is written
SpeedTable(algs, df) == [k \in 1..Len(df) |-> <<new_col(algs)[k], df[k]>>]

NotWritten == <<"not written">>

WrittenThenLost(table) == <<"not written">>

Written(table) == <<"written", table>>

IsWritten(csv) == csv[1] = "written"

TableOf(csv) == csv[2]

(***************************************************************************)
(* tls_performance_data_parse / oqs_provider_parse: get_speed_metrics      *)
(***************************************************************************)
\* speed_headers, as set by setup_parse_env
speed_headers ==
    << <<"Algorithm", "Keygen", "encaps", "decaps", "Keygen/s", "Encaps/s", "Decaps/s">>,
       <<"Algorithm", "Keygen", "Signs", "Verify", "Keygen/s", "sign/s", "verify/s">> >>

\* headers = speed_headers[0] if alg_type == "kem" else speed_headers[1]
HeadersOf(alg_type) == IF alg_type = "kem" THEN speed_headers[1] ELSE speed_headers[2]

IsStartLineKemOnly(line) == Contains(line, <<"k", "e", "y", "g", "e", "n", "s", "/", "s">>)

\* the two tests that set start = True and skip the line
IsStartLine(line) ==
    \/ Contains(line, <<"k", "e", "y", "g", "e", "n", "s", "/", "s">>)
    \/ (Contains(line, <<"s", "i", "g", "n">>) /\ Contains(line, <<"v", "e", "r", "i", "f", "y">>))

\* the loop over the lines of the file: data_lists at the end of it
RECURSIVE GetSpeedScan(_, _, _, _)
GetSpeedScan(lines, i, start, data_lists) ==
    IF i > Len(lines) THEN data_lists
    ELSE IF IsStartLine(lines[i]) THEN GetSpeedScan(lines, i + 1, TRUE, data_lists)
    ELSE IF start
         THEN GetSpeedScan(lines, i + 1, start, Append(data_lists, Strip(lines[i])))
         ELSE GetSpeedScan(lines, i + 1, start, data_lists)

drop_trailing_s(data_cells) ==
    [k \in 1..Len(data_cells) |->
        IF k > 1 /\ data_cells[k] # <<>> /\ data_cells[k][Len(data_cells[k])] = "s"
        THEN SubSeq(data_cells[k], 1, Len(data_cells[k]) - 1)
        ELSE data_cells[k]]

\* tls_speed_drop_last / ssl_speed_drop_last
tls_speed_drop_last(data_cells) ==
    [k \in 1..Len(data_cells) |->
        IF k > 1 /\ Contains(data_cells[k], <<"s">>)
        THEN RemoveChar(data_cells[k], "s")
        ELSE data_cells[k]]

SpeedRaise == [kind |-> "raise", df |-> <<>>]

SpeedReturn(rows) == [kind |-> "return", df |-> rows]

\* pd.DataFrame([data_cells], columns=headers) accepts the row
CellsFit(data_cells, headers) == Len(data_cells) = Len(headers)

\* get_speed_metrics: the table returned, or the exception that leaves it
\* (open() of a missing file, a row whose width is not the header's)
get_speed_metrics(speed_file, alg_type) ==
    IF ~speed_file.exists THEN SpeedRaise
    ELSE LET data_lists == GetSpeedScan(speed_file.lines, 1, FALSE, <<>>)
             rows == [k \in 1..Len(data_lists) |->
                         tls_speed_drop_last(Split(data_lists[k]))]
         IN IF \E k \in 1..Len(rows) : ~CellsFit(rows[k], HeadersOf(alg_type))
            THEN SpeedRaise
            ELSE SpeedReturn(rows)

\* lines an s_speed output file can hold
SpeedLines ==
    {\* "OpenSSL 3.5"
     <<"O", "p", "e", "n", "S", "S", "L", " ", "3", ".", "5">>,
     \* "keygen encaps decaps keygens/s encaps/s decaps/s"
     <<"k", "e", "y", "g", "e", "n", " ", "e", "n", "c", "a", "p", "s", " ", "d", "e", "c", "a", "p", "s", " ", "k", "e", "y", "g", "e", "n", "s", "/", "s", " ", "e", "n", "c", "a", "p", "s", "/", "s", " ", "d", "e", "c", "a", "p", "s", "/", "s">>,
     \* "sign verify sign/s verify/s"
     <<"s", "i", "g", "n", " ", "v", "e", "r", "i", "f", "y", " ", "s", "i", "g", "n", "/", "s", " ", "v", "e", "r", "i", "f", "y", "/", "s">>,
     \* "a 1s 2s 3s 4 5 6"
     <<"a", " ", "1", "s", " ", "2", "s", " ", "3", "s", " ", "4", " ", "5", " ", "6">>,
     \* "b 7s 8sec 9s 1 2 3"
     <<"b", " ", "7", "s", " ", "8", "s", "e", "c", " ", "9", "s", " ", "1", " ", "2", " ", "3">>,
     \* "c 1s"
     <<"c", " ", "1", "s">>,
     \* an empty line
     <<>>}

SpeedFiles == {MissingFile} \cup {TextFile(ls) : ls \in SeqsUpTo(SpeedLines, MaxSpeedLines)}

AlgTypes == {"kem", "sig"}

(***************************************************************************)
(* tls_performance_data_parse / oqs_provider_parse: speed_processing       *)
(***************************************************************************)
\* the (test_type, alg_type) pairs in the order of the two nested loops
SpeedKeys ==
    << <<"pqc", "kem">>, <<"pqc", "sig">>, <<"hybrid", "kem">>, <<"hybrid", "sig">> >>

SpeedKeySet == Range(SpeedKeys)

\* the header line s_speed prints above the table of an alg_type
SpeedHeaderLine(alg_type) ==
    IF alg_type = "kem"
    THEN \* "keygen encaps decaps keygens/s encaps/s decaps/s"
         <<"k", "e", "y", "g", "e", "n", " ", "e", "n", "c", "a", "p", "s", " ", "d", "e", "c", "a", "p", "s", " ", "k", "e", "y", "g", "e", "n", "s", "/", "s", " ", "e", "n", "c", "a", "p", "s", "/", "s", " ", "d", "e", "c", "a", "p", "s", "/", "s">>
    ELSE \* "sign verify sign/s verify/s"
         <<"s", "i", "g", "n", " ", "v", "e", "r", "i", "f", "y", " ", "s", "i", "g", "n", "/", "s", " ", "v", "e", "r", "i", "f", "y", "/", "s">>

\* the i-th result line s_speed prints: "a 1s 2s 3s 4 5 6" or "b 7s 8s 9s 1 2 3"
SpeedRowLine(i) ==
    IF i % 2 = 1
    THEN <<"a", " ", "1", "s", " ", "2", "s", " ", "3", "s", " ", "4", " ", "5", " ", "6">>
    ELSE <<"b", " ", "7", "s", " ", "8", "s", " ", "9", "s", " ", "1", " ", "2", " ", "3">>

\* the file s_speed writes when n algorithms are tested
SpeedFileFor(alg_type, n) ==
    TextFile(<<<<"O", "p", "e", "n", "S", "S", "L", " ", "3", ".", "5">>, SpeedHeaderLine(alg_type)>>
             \o [i \in 1..n |-> SpeedRowLine(i)])

\* what the file of one (test_type, alg_type) can be: the one written for
\* the alg-list, or a damaged one (another list was tested, the last line
\* is lost, a line is cut short, the table header is lost, no file)
SpeedFileInputs(alg_type, n, budget) ==
    {[file |-> SpeedFileFor(alg_type, n), cost |-> 0]}
    \cup (IF budget > 0
          THEN {[file |-> f, cost |-> 1] :
                  f \in {SpeedFileFor(alg_type, n + 1),
                         TextFile(SubSeq(SpeedFileFor(alg_type, n).lines, 1, n + 1)),
                         TextFile(Append(SpeedFileFor(alg_type, n).lines,
                                         <<"c", " ", "1", "s">>)),
                         TextFile(<<SpeedFileFor(alg_type, n).lines[1]>>
                                  \o SubSeq(SpeedFileFor(alg_type, n).lines, 3, n + 2)),
                         MissingFile}}
          ELSE {})

SpeedCountMismatchFewer(df_len, alg_list_len) == df_len < alg_list_len

\* tls speed_processing: len(speed_metrics_df) != len(algs_dict[alg_list_key])
SpeedCountMismatch(df_len, alg_list_len) == df_len # alg_list_len

(***************************************************************************)
(* tls_performance_data_parse / oqs_provider_parse: pqc_based_processing   *)
(***************************************************************************)
\* the names a signature alg-list can hold; "ab" contains "a" and "b"
SigNames == {<<"a">>, <<"b">>, <<"a", "b">>}

SigManifests == SeqsUpTo(SigNames, MaxAlgs) \ {<<>>}

\* pqc_based_pre_processing: the rows of sig_metrics_df for one signature
\* and one KEM list (first use row, reuse row per KEM); the five metric
\* columns are not part of the row modelled here
RECURSIVE SigRows(_, _)
SigRows(sig, kems) ==
    IF kems = <<>> THEN <<>>
    ELSE <<<<sig, Head(kems), <<>>>>, <<sig, Head(kems), <<"*">>>>>>
         \o SigRows(sig, Tail(kems))

\* pqc_based_pre_processing: sig_metrics_df after both loops
RECURSIVE BaseRows(_, _)
BaseRows(sigs, kems) ==
    IF sigs = <<>> THEN <<>>
    ELSE SigRows(Head(sigs), kems) \o BaseRows(Tail(sigs), kems)

\* the cell pandas holds for an empty CSV field
NaN == <<"N", "a", "N">>

\* df.to_csv(..., index=False): a missing value is written as an empty field
to_csv(df) ==
    [r \in 1..Len(df) |-> [c \in 1..Len(df[r]) |->
        IF df[r][c] = NaN THEN <<>> ELSE df[r][c]]]

\* pd.read_csv: an empty field is read as a missing value
read_csv(table) ==
    [r \in 1..Len(table) |-> [c \in 1..Len(table[r]) |->
        IF table[r][c] = <<>> THEN NaN ELSE table[r][c]]]

\* base_df["Signing Algorithm"].str.contains(sig), for names without
\* characters that are special in a regular expression
SigContains(cell, sig) == Contains(cell, sig)

\* base_df[base_df["Signing Algorithm"].str.contains(sig)]
current_sig_df(base_df, sig) == SelectSeq(base_df, LAMBDA row : SigContains(row[1], sig))

FileCountMismatchFewer(sigs, kems, actual_files) == actual_files < Len(sigs) * Len(kems)

\* pqc_based_pre_processing, run 1: expected_files != len(actual_files)
FileCountMismatch(sigs, kems, actual_files) == Len(sigs) * Len(kems) # actual_files

(***************************************************************************)
(* pqc_based_pre_processing and classic_based_processing: the base tables  *)
(***************************************************************************)
\* get_metrics as one call: the scan of the lines from line i on
RECURSIVE GetMetricsScan(_, _, _, _, _)
GetMetricsScan(lines, i, flag, reuse, row) ==
    IF i > Len(lines) THEN row
    ELSE LET e == LineStep(lines[i], flag, reuse)
         IN IF e.raised THEN row \o e.fields \o Placeholder
            ELSE IF e.brk THEN row \o e.fields
            ELSE GetMetricsScan(lines, i + 1, e.flag, reuse, row \o e.fields)

\* get_metrics(current_row, test_filepath, get_reuse_metrics)
get_metrics(row, test_file, reuse) ==
    IF test_file.exists THEN GetMetricsScan(test_file.lines, 1, FALSE, reuse, row)
    ELSE row \o Placeholder

current_row_untagged(inner, reuse) == <<inner, <<>>>>

\* current_row = [kem, ""] / [kem, "*"]  (classic: [alg, ""] / [alg, "*"])
current_row_init(inner, reuse) == <<inner, IF reuse THEN <<"*">> ELSE <<>>>>

\* col_headers['pqc_based_headers'] and col_headers['classic_headers']
base_headers(kind) ==
    <<IF kind = "pqc" THEN "Signing Algorithm" ELSE "Ciphersuite",
      IF kind = "pqc" THEN "KEM Algorithm" ELSE "Classic Algorithm",
      "Reused Session ID", "Connections in User Time", "User Time (s)",
      "Connections Per User Second", "Connections in Real Time", "Real Time (s)">>

\* current_row.insert(0, outer) after one get_metrics call
BaseRow(outer, inner, test_file, reuse) ==
    <<outer>> \o get_metrics(current_row_init(inner, reuse), test_file, reuse)

\* the log a (outer, inner) pair can have: the output of one s_time run,
\* and what is left of it after a failed or interrupted test
DamagedBaseLogs ==
    {MissingFile, TextFile(<<>>), TextFile(<<FirstUserLine, FirstRealLine>>),
     TextFile(<<ShortRealLine>>)}

(***************************************************************************)
(* Entry of the parsing modules: setup_parse_env, process_tests,           *)
(* handle_results_dir_creation                                             *)
(***************************************************************************)
Modules == {"liboqs", "tls", "oqs"}

Machines == 1..MaxMachines

MarkerCheckSkipped(marker) == FALSE

\* setup_parse_env: not os.path.isfile(<root_dir>/.pqc_eval_dir_marker.tmp)
MarkerMissing(marker) == ~marker

\* process_tests, "Ensure that the machine's up-results directory exists":
\*   liboqs_parse tests dir_paths['up_results'], the directory of the tool,
\*   tls_performance_data_parse tests dir_paths['mach_up_results_dir'],
\*   oqs_provider_parse has no such test
UpResultsMissing(module, up_root, up_mach) ==
    IF module = "liboqs" THEN ~up_root
    ELSE IF module = "tls" THEN ~up_mach
    ELSE FALSE

\* what can be typed at "Enter option: "
UserChoices == {"1", "2", "3", "4", "y", ""}

PromptOutcomeStrict(user_choice) ==
    IF user_choice = "1" THEN "replace"
    ELSE IF user_choice = "3" THEN "wait"
    ELSE "exit"

\* handle_results_dir_creation, the if / elif chain on user_choice: "1"
\* replaces, "2" calls exit(), "3" enters the wait loop, anything else
\* prints "Incorrect value" and the loop starts again
PromptOutcome(user_choice) ==
    IF user_choice = "1" THEN "replace"
    ELSE IF user_choice = "2" THEN "exit"
    ELSE IF user_choice = "3" THEN "wait"
    ELSE "again"

\* handle_results_dir_creation: the result directories of the machine exist
OldResultsPresent(results, machine_id) == results[machine_id] # "absent"

\* shutil.rmtree(dir_paths["results_dir"], f"machine-{machine_id}"): the
\* second positional parameter of rmtree is ignore_errors, the tree that is
\* removed is results_dir with the results of every machine
rmtree(results) == [m \in DOMAIN results |-> "absent"]

makedirs_skipped(results, machine_id) == results

\* os.makedirs of the two result directories of the machine
makedirs(results, machine_id) == [results EXCEPT ![machine_id] = "new"]

(***************************************************************************)
(* State                                                                   *)
(***************************************************************************)
VARIABLES
    pk_file,      \* get_peak: the file behind mem_file
    pk_result,    \* get_peak: outcome of the call
    pk_pc,        \* get_peak: "call" before the call, "done" after it
    gm_file,                \* get_metrics: the file behind test_filepath
    get_reuse_metrics,      \* get_metrics: the requested block
    current_row,            \* get_metrics: the row being extended
    session_metrics_flag,   \* get_metrics: a "reuse" line has been read
    gm_line,                \* get_metrics: index of the next line of the loop
    gm_pc,                  \* get_metrics: "open", "loop", "except", "return"
    gm_origin,              \* history: per appended field, the line it came
                            \* from (0 for a placeholder of the handler)
    gm_raised,              \* history: the except handler has run
    kem_algs,               \* liboqs: the KEM alg-list, as loaded
    sig_algs,               \* liboqs: the signature alg-list, as loaded
    num_runs,               \* liboqs: number of runs to parse
    up_mem_algs,            \* per family, the algorithms whose snapshot
                            \* artifacts are in the up-results directory
    pc,                     \* liboqs: position in process_tests
    family,                 \* liboqs: the family block being executed
    run_count,              \* liboqs: run_count / file_count of the loops
    alg_idx,                \* liboqs: position of the algorithm loop
    operation,              \* liboqs: operation index of the inner loop
    temp_df,                \* speed_processing: Operation column of temp_df
    new_row,                \* memory_processing: new_row
    peak_metrics,           \* memory_processing: peak_metrics
    mem_results_df,         \* memory_processing: rows of mem_results_df
    speed_csv,              \* per (family, run) the speed table on disk
    mem_csv,                \* per (family, run) the memory table on disk
    exit_code,              \* status of sys.exit, -1 while running
    fs,                     \* per artifact, what the parser found when it
                            \* opened it ("unread" before)
    damaged,                \* number of damaged inputs met so far
    passed,                 \* history: the checks that returned
    failed,                 \* history: the check that called sys.exit
    st_file,                \* get_speed_metrics: the file behind speed_filepath
    st_alg_type,            \* get_speed_metrics: alg_type
    st_result,              \* get_speed_metrics: outcome of the call
    st_pc,                  \* get_speed_metrics: "call" before, "done" after
    sq_module,              \* speed_processing: "tls" or "oqs", the module that runs
    sq_lists,               \* per (test type, alg type), length of its alg-list
    sq_iter,                \* speed_processing: position in the two nested loops
    sq_df,                  \* speed_processing: speed_metrics_df
    sq_pc,                  \* speed_processing: "extract", "check", "write", ...
    sq_csv,                 \* per (test type, alg type), the CSV on disk
    sq_exit_code,           \* status the process ended with, -1 while running
    sq_damaged,             \* number of damaged speed files met so far
    hs_run,                 \* pqc_based_processing: current_run
    hs_type_index,          \* pqc_based_processing: type_index of the outer loop
    hs_sigs,                \* the signature alg-list of the current test type
    hs_kems,                \* the KEM alg-list of the current test type
    hs_base,                \* the base results CSV of the current test type
    hs_sig_idx,             \* pqc_based_processing: position of the signature loop
    hs_subsets,             \* per signature name, its subset CSV of this test type
    hs_pc,                  \* pqc_based_processing: "pre", "split", "done", "exit"
    hs_exit_code,           \* status the process ended with, -1 while running
    hs_actual_files,        \* number of tls_handshake_1_*.txt files that
                            \* os.listdir found in the up-results directory
    cd_df_len,              \* check_data_mismatch: df_len
    cd_alg_list_len,        \* check_data_mismatch: alg_list_len
    cd_pc,                  \* check_data_mismatch: "call", "return" or "exit"
    cd_exit_code,           \* status of sys.exit, -1 when it was not called
    ev_module,              \* the parsing module that runs
    ev_machine_id,          \* machine_id of the invocation
    ev_replace,             \* replace_old_results (--replace-old-results)
    ev_marker,              \* root_dir holds .pqc_eval_dir_marker.tmp
    ev_lists,               \* the alg-list files exist
    ev_up_root,             \* dir_paths['up_results'] exists
    ev_up_mach,             \* the machine's up-results directory exists
    ev_results,             \* per Machine-ID, its parsed results: absent, old, new
    ev_pc,                  \* position between setup_parse_env and the parsing
    ev_exit_code,           \* status the process ended with, -1 while running
    ev_done,                \* history: what the invocation has done so far
    ev_answers,             \* history: the answers read by input("Enter option: ")
    bp_kind,                \* base table being built: "pqc" or "classic"
    bp_run,                 \* current_run
    bp_outer,               \* the outer list: signature alg-list or ciphers
    bp_inner,               \* the inner list: KEM alg-list or classic_algs
    bp_i,                   \* position of the outer loop
    bp_j,                   \* position of the inner loop
    bp_df,                  \* sig_metrics_df / cipher_metrics_df
    bp_src,                 \* history: per row of the dataframe, the log it was read from
    bp_damaged,             \* number of damaged logs met so far
    bp_pc,                  \* "start", "pair", "write", "done", "exit", "raise"
    bp_csv                  \* the base table on disk

pkVars == <<pk_file, pk_result, pk_pc>>

gmVars == <<gm_file, get_reuse_metrics, current_row, session_metrics_flag,
            gm_line, gm_pc, gm_origin, gm_raised>>

lqVars == <<kem_algs, sig_algs, num_runs, up_mem_algs, pc, family, run_count,
            alg_idx, operation, temp_df, new_row, peak_metrics, mem_results_df,
            speed_csv, mem_csv, exit_code, fs, damaged, passed, failed>>

vars == <<pk_file, pk_result, pk_pc,
          gm_file, get_reuse_metrics, current_row, session_metrics_flag,
          gm_line, gm_pc, gm_origin, gm_raised,
          kem_algs, sig_algs, num_runs, up_mem_algs, pc, family, run_count,
          alg_idx, operation, temp_df, new_row, peak_metrics, mem_results_df,
          speed_csv, mem_csv, exit_code, fs, damaged, passed, failed,
          st_file, st_alg_type, st_result, st_pc,
          sq_module, sq_lists, sq_iter, sq_df, sq_pc, sq_csv, sq_exit_code, sq_damaged,
          hs_run, hs_type_index, hs_sigs, hs_kems, hs_base, hs_sig_idx, hs_subsets, hs_pc, hs_exit_code, hs_actual_files,
          cd_df_len, cd_alg_list_len, cd_pc, cd_exit_code,
          ev_module, ev_machine_id, ev_replace, ev_marker, ev_lists, ev_up_root, ev_up_mach, ev_results, ev_pc, ev_exit_code, ev_done, ev_answers,
          bp_kind, bp_run, bp_outer, bp_inner, bp_i, bp_j, bp_df, bp_src, bp_damaged, bp_pc, bp_csv>>

stVars == <<st_file, st_alg_type, st_result, st_pc>>

sqVars == <<sq_module, sq_lists, sq_iter, sq_df, sq_pc, sq_csv, sq_exit_code, sq_damaged>>

hsVars == <<hs_run, hs_type_index, hs_sigs, hs_kems, hs_base, hs_sig_idx, hs_subsets, hs_pc, hs_exit_code, hs_actual_files>>

cdVars == <<cd_df_len, cd_alg_list_len, cd_pc, cd_exit_code>>

evVars == <<ev_module, ev_machine_id, ev_replace, ev_marker, ev_lists, ev_up_root, ev_up_mach, ev_results, ev_pc, ev_exit_code, ev_done, ev_answers>>

bpVars == <<bp_kind, bp_run, bp_outer, bp_inner, bp_i, bp_j, bp_df, bp_src, bp_damaged, bp_pc, bp_csv>>

Runs == 1..MaxRuns

\* one snapshot artifact: <family>-mem-metrics/<alg>-<operation>-<run>.txt
Cells == Families \X Algs \X (0..2) \X Runs

Tables == Families \X Runs

LqIdle ==
    /\ kem_algs = <<>>
    /\ sig_algs = <<>>
    /\ num_runs = 0
    /\ up_mem_algs = [f \in Families |-> {}]
    /\ pc = "idle"
    /\ family = "kem"
    /\ run_count = 1
    /\ alg_idx = 1
    /\ operation = 0
    /\ temp_df = <<>>
    /\ new_row = <<>>
    /\ peak_metrics = <<>>
    /\ mem_results_df = <<>>
    /\ speed_csv = [t \in Tables |-> NotWritten]
    /\ mem_csv = [t \in Tables |-> NotWritten]
    /\ exit_code = -1
    /\ fs = [c \in Cells |-> "unread"]
    /\ damaged = 0
    /\ passed = {}
    /\ failed = {}

GmIdle ==
    /\ gm_file = MissingFile
    /\ get_reuse_metrics = FALSE
    /\ current_row = <<>>
    /\ session_metrics_flag = FALSE
    /\ gm_line = 1
    /\ gm_pc = "idle"
    /\ gm_origin = <<>>
    /\ gm_raised = FALSE

PkIdle ==
    /\ pk_file = MissingFile
    /\ pk_result = PeakNone
    /\ pk_pc = "idle"

StIdle ==
    /\ st_file = MissingFile
    /\ st_alg_type = "kem"
    /\ st_result = SpeedRaise
    /\ st_pc = "idle"

SqIdle ==
    /\ sq_module = "tls"
    /\ sq_lists = [k \in SpeedKeySet |-> 0]
    /\ sq_iter = 1
    /\ sq_df = SpeedRaise
    /\ sq_pc = "idle"
    /\ sq_csv = [k \in SpeedKeySet |-> NotWritten]
    /\ sq_exit_code = -1
    /\ sq_damaged = 0

HsIdle ==
    /\ hs_run = 1
    /\ hs_type_index = 0
    /\ hs_sigs = <<>>
    /\ hs_kems = <<>>
    /\ hs_base = NotWritten
    /\ hs_sig_idx = 1
    /\ hs_subsets = [s \in SigNames |-> NotWritten]
    /\ hs_pc = "idle"
    /\ hs_exit_code = -1
    /\ hs_actual_files = 0

CdIdle ==
    /\ cd_df_len = 0
    /\ cd_alg_list_len = 0
    /\ cd_pc = "idle"
    /\ cd_exit_code = -1

EvIdle ==
    /\ ev_module = "liboqs"
    /\ ev_machine_id = 1
    /\ ev_replace = FALSE
    /\ ev_marker = FALSE
    /\ ev_lists = FALSE
    /\ ev_up_root = FALSE
    /\ ev_up_mach = FALSE
    /\ ev_results = [m \in Machines |-> "absent"]
    /\ ev_pc = "idle"
    /\ ev_exit_code = -1
    /\ ev_done = {}
    /\ ev_answers = <<>>

BpIdle ==
    /\ bp_kind = "pqc"
    /\ bp_run = 1
    /\ bp_outer = <<>>
    /\ bp_inner = <<>>
    /\ bp_i = 1
    /\ bp_j = 1
    /\ bp_df = <<>>
    /\ bp_src = <<>>
    /\ bp_damaged = 0
    /\ bp_pc = "idle"
    /\ bp_csv = NotWritten

\* what each specification leaves alone
pkRest == <<gmVars, lqVars, stVars, sqVars, hsVars, cdVars, evVars, bpVars>>

gmRest == <<pkVars, lqVars, stVars, sqVars, hsVars, cdVars, evVars, bpVars>>

lqRest == <<pkVars, gmVars, stVars, sqVars, hsVars, cdVars, evVars, bpVars>>

stRest == <<pkVars, gmVars, lqVars, sqVars, hsVars, cdVars, evVars, bpVars>>

sqRest == <<pkVars, gmVars, lqVars, stVars, hsVars, cdVars, evVars, bpVars>>

hsRest == <<pkVars, gmVars, lqVars, stVars, sqVars, cdVars, evVars, bpVars>>

cdRest == <<pkVars, gmVars, lqVars, stVars, sqVars, hsVars, evVars, bpVars>>

evRest == <<pkVars, gmVars, lqVars, stVars, sqVars, hsVars, cdVars, bpVars>>

bpRest == <<pkVars, gmVars, lqVars, stVars, sqVars, hsVars, cdVars, evVars>>

PkRestIdle ==
    GmIdle /\ LqIdle /\ StIdle /\ SqIdle /\ HsIdle /\ CdIdle /\ EvIdle
    /\ BpIdle

GmRestIdle ==
    PkIdle /\ LqIdle /\ StIdle /\ SqIdle /\ HsIdle /\ CdIdle /\ EvIdle
    /\ BpIdle

LqRestIdle ==
    PkIdle /\ GmIdle /\ StIdle /\ SqIdle /\ HsIdle /\ CdIdle /\ EvIdle
    /\ BpIdle

StRestIdle ==
    PkIdle /\ GmIdle /\ LqIdle /\ SqIdle /\ HsIdle /\ CdIdle /\ EvIdle
    /\ BpIdle

SqRestIdle ==
    PkIdle /\ GmIdle /\ LqIdle /\ StIdle /\ HsIdle /\ CdIdle /\ EvIdle
    /\ BpIdle

HsRestIdle ==
    PkIdle /\ GmIdle /\ LqIdle /\ StIdle /\ SqIdle /\ CdIdle /\ EvIdle
    /\ BpIdle

CdRestIdle ==
    PkIdle /\ GmIdle /\ LqIdle /\ StIdle /\ SqIdle /\ HsIdle /\ EvIdle
    /\ BpIdle

EvRestIdle ==
    PkIdle /\ GmIdle /\ LqIdle /\ StIdle /\ SqIdle /\ HsIdle /\ CdIdle
    /\ BpIdle

BpRestIdle ==
    PkIdle /\ GmIdle /\ LqIdle /\ StIdle /\ SqIdle /\ HsIdle /\ CdIdle
    /\ EvIdle

(***************************************************************************)
(* SpecPeak: one call of get_peak on an arbitrary snapshot file            *)
(***************************************************************************)

InitPeak ==
    /\ pk_file \in PeakFiles
    /\ pk_result = PeakNone
    /\ pk_pc = "call"
    /\ PkRestIdle

CallGetPeak ==
    /\ pk_pc = "call"
    /\ pk_result' = get_peak(pk_file)
    /\ pk_pc' = "done"
    /\ UNCHANGED pk_file
    /\ UNCHANGED pkRest

NextPeak == CallGetPeak

SpecPeak == InitPeak /\ [][NextPeak]_vars

(***************************************************************************)
(* Vocabulary of the get_peak claims                                       *)
(***************************************************************************)
\* the lines that announce a peak index
PeakHeaders(lines) ==
    {h \in 1..Len(lines) : StartsWith(lines[h], HeaderPrefix) /\ PeakSearch(lines[h])}

OnlyHeader(lines) == CHOOSE h \in PeakHeaders(lines) : TRUE

DeclaredPeak(lines) == PeakOfMatch(lines[OnlyHeader(lines)])

\* p right-justified in three columns
Index3(p) ==
    IF p < 10 THEN <<" ", " ">> \o DigitsOf(p)
    ELSE IF p < 100 THEN <<" ">> \o DigitsOf(p)
    ELSE DigitsOf(p)

\* the lines after the header that begin with the three-column index p
IndexLines(lines, p) ==
    {j \in (OnlyHeader(lines) + 1)..Len(lines) : StartsWith(lines[j], Index3(p))}

\* a snapshot record of index p: its leading field is p
IsRecordOf(line, p) == Split(line) # <<>> /\ Split(line)[1] = DigitsOf(p)

\* the fields of a record without the leading index, separators stripped
RecordFields(line) ==
    [k \in 1..(Len(Split(line)) - 1) |-> RemoveChar(Split(line)[k + 1], ",")]

\* the record of the declared peak is present after the header
PeakRecordPresent(lines) ==
    /\ Cardinality(PeakHeaders(lines)) = 1
    /\ IndexLines(lines, DeclaredPeak(lines)) # {}
    /\ IsRecordOf(lines[SetMin(IndexLines(lines, DeclaredPeak(lines)))], DeclaredPeak(lines))

PeakRecordLine(lines) == lines[SetMin(IndexLines(lines, DeclaredPeak(lines)))]

\* C9 as stated (p >= 0): whenever the record of the declared peak index
\* is present after the header, get_peak returns the record's fields without
\* the leading index and with the thousands separators stripped.
C9_AnyPeakIndex ==
    (pk_pc = "done" /\ pk_file.exists /\ PeakRecordPresent(pk_file.lines))
        => pk_result = PeakReturn(RecordFields(PeakRecordLine(pk_file.lines)))

\* C9 (amended): for every declared peak index p > 0 whose record is present
\* after the header, get_peak returns the record's fields without the leading
\* index and with the thousands separators stripped, in their original order.
C9_PositivePeakIndex ==
    (/\ pk_pc = "done"
     /\ pk_file.exists
     /\ PeakRecordPresent(pk_file.lines)
     /\ DeclaredPeak(pk_file.lines) > 0)
        => pk_result = PeakReturn(RecordFields(PeakRecordLine(pk_file.lines)))

\* a call that returned the comma-stripped fields of a record with p > 0
C9_Witness ==
    /\ pk_pc = "done"
    /\ pk_file.exists
    /\ PeakRecordPresent(pk_file.lines)
    /\ DeclaredPeak(pk_file.lines) = 12
    /\ pk_result.kind = "return"
    /\ \E k \in 1..Len(pk_result.val) :
          pk_result.val[k] # Split(PeakRecordLine(pk_file.lines))[k + 1]

\* no line announces a peak index
NoPeakMarker(lines) == PeakHeaders(lines) = {}

\* one header announces a peak index and no later line begins with it
NoPeakRecord(lines) ==
    /\ Cardinality(PeakHeaders(lines)) = 1
    /\ IndexLines(lines, DeclaredPeak(lines)) = {}

InitMetrics ==
    /\ gm_file \in LogFiles
    /\ get_reuse_metrics \in BOOLEAN
    /\ current_row = InputRow(get_reuse_metrics)
    /\ session_metrics_flag = FALSE
    /\ gm_line = 1
    /\ gm_pc = "open"
    /\ gm_origin = <<>>
    /\ gm_raised = FALSE
    /\ GmRestIdle

\* with open(test_filepath, "r") as test_file: session_metrics_flag = False
GmOpen ==
    /\ gm_pc = "open"
    /\ gm_pc' = IF gm_file.exists THEN "loop" ELSE "except"
    /\ session_metrics_flag' = FALSE
    /\ UNCHANGED <<gm_file, get_reuse_metrics, current_row, gm_line,
                   gm_origin, gm_raised>>
    /\ UNCHANGED gmRest

\* one iteration of the loop over the lines of the file
GmLine ==
    /\ gm_pc = "loop"
    /\ gm_line <= Len(gm_file.lines)
    /\ LET e == LineStep(gm_file.lines[gm_line], session_metrics_flag,
                         get_reuse_metrics)
       IN /\ session_metrics_flag' = e.flag
          /\ current_row' = current_row \o e.fields
          /\ gm_origin' = gm_origin \o [k \in 1..Len(e.fields) |-> gm_line]
          /\ gm_pc' = IF e.raised THEN "except"
                      ELSE IF e.brk THEN "return"
                      ELSE "loop"
    /\ gm_line' = gm_line + 1
    /\ UNCHANGED <<gm_file, get_reuse_metrics, gm_raised>>
    /\ UNCHANGED gmRest

\* the loop ends at the end of the file
GmEof ==
    /\ gm_pc = "loop"
    /\ gm_line > Len(gm_file.lines)
    /\ gm_pc' = "return"
    /\ UNCHANGED <<gm_file, get_reuse_metrics, current_row,
                   session_metrics_flag, gm_line, gm_origin, gm_raised>>
    /\ UNCHANGED gmRest

\* except: five empty fields are appended to current_row
GmExcept ==
    /\ gm_pc = "except"
    /\ current_row' = current_row \o Placeholder
    /\ gm_origin' = gm_origin \o [k \in 1..Len(Placeholder) |-> 0]
    /\ gm_raised' = TRUE
    /\ gm_pc' = "return"
    /\ UNCHANGED <<gm_file, get_reuse_metrics, session_metrics_flag, gm_line>>
    /\ UNCHANGED gmRest

NextMetrics == GmOpen \/ GmLine \/ GmEof \/ GmExcept

SpecMetrics == InitMetrics /\ [][NextMetrics]_vars

(***************************************************************************)
(* Vocabulary of the get_metrics claims                                    *)
(***************************************************************************)
\* the lines that contain "reuse"
ReuseLines(lines) == {i \in 1..Len(lines) : Contains(lines[i], ReuseWord)}

\* index of the first line containing "reuse"; past the end when there is none
FirstReuseLine(lines) ==
    IF ReuseLines(lines) = {} THEN Len(lines) + 1 ELSE SetMin(ReuseLines(lines))

\* the fields appended so far
Appended == SubSeq(current_row, Len(InputRow(get_reuse_metrics)) + 1, Len(current_row))

FirstUseNumbers ==
    <<<<"1", "0">>, <<"0", ".", "0", "5">>, <<"2", "0", "0", ".", "0", "0">>,
      <<"1", "0">>, <<"6">>>>

ReuseNumbers ==
    <<<<"1", "5">>, <<"0", ".", "0", "2">>, <<"7", "5", "0", ".", "0", "0">>,
      <<"1", "5">>, <<"7">>>>

\* C5: get_metrics never mixes blocks.  Every field taken from a line comes
\* from a line before the first "reuse" line when get_reuse_metrics is False
\* and from the first "reuse" line or a later one when it is True; on a log
\* with one first-use block followed by one reuse block the two calls return
\* the first-use numbers and the reuse numbers.
C5_BlocksNeverMix ==
    /\ \A k \in 1..Len(gm_origin) :
          gm_origin[k] # 0 =>
             IF get_reuse_metrics
             THEN gm_origin[k] >= FirstReuseLine(gm_file.lines)
             ELSE gm_origin[k] < FirstReuseLine(gm_file.lines)
    /\ (gm_pc = "return" /\ gm_file = TextFile(TwoBlockLog)) =>
          Appended = IF get_reuse_metrics THEN ReuseNumbers ELSE FirstUseNumbers

\* the reuse call has returned the reuse numbers of a two-block log
C5_Witness ==
    /\ gm_pc = "return"
    /\ gm_file = TextFile(TwoBlockLog)
    /\ get_reuse_metrics
    /\ Appended = ReuseNumbers
    /\ \A k \in 1..5 : gm_origin[k] > 3

\* C6: whatever the file holds, get_metrics returns the row it was given
\* extended by exactly five fields.
C6_AlwaysFiveFields ==
    gm_pc = "return" => Len(current_row) = Len(InputRow(get_reuse_metrics)) + 5

\* C7: after a parse failure the returned row is the input row followed by
\* exactly five empty fields and nothing else.
C7_FailureGivesBlankRow ==
    (gm_pc = "return" /\ gm_file.exists /\ gm_raised)
        => current_row = InputRow(get_reuse_metrics) \o <<<<>>, <<>>, <<>>, <<>>, <<>>>>

\* C8: for a path that does not exist get_metrics returns the input row
\* followed by exactly five empty-string fields, for either requested block,
\* and no exception leaves the call.
C8_MissingFileGivesBlankRow ==
    ~gm_file.exists =>
        /\ gm_pc \in {"open", "except", "return"}
        /\ gm_pc = "return" =>
              /\ gm_raised
              /\ current_row = InputRow(get_reuse_metrics) \o <<<<>>, <<>>, <<>>, <<>>, <<>>>>

\* the call on a missing file has returned, for the reuse block
C8_Witness ==
    /\ ~gm_file.exists
    /\ get_reuse_metrics
    /\ gm_pc = "return"
    /\ Len(current_row) = 7

(***************************************************************************)
(* Spec: liboqs_parse.process_tests from speed_processing to averaging     *)
(***************************************************************************)
algs_of(f) == IF f = "kem" THEN kem_algs ELSE sig_algs

Init ==
    /\ kem_algs \in Manifests
    /\ sig_algs \in Manifests
    /\ num_runs \in Runs
    /\ up_mem_algs \in [Families -> SUBSET Algs]
    /\ pc = "speed_load"
    /\ family = "kem"
    /\ run_count = 1
    /\ alg_idx = 1
    /\ operation = 0
    /\ temp_df = <<>>
    /\ new_row = <<>>
    /\ peak_metrics = <<>>
    /\ mem_results_df = <<>>
    /\ speed_csv = [t \in Tables |-> NotWritten]
    /\ mem_csv = [t \in Tables |-> NotWritten]
    /\ exit_code = -1
    /\ fs = [c \in Cells |-> "unread"]
    /\ damaged = 0
    /\ passed = {}
    /\ failed = {}
    /\ LqRestIdle

\* the Operation column the speed file of the current (family, run) can hold:
\* the one written for the manifest, or a damaged one (another algorithm
\* list was tested, or the last row is lost)
SpeedInputs ==
    {[cells |-> SpeedRows(family, algs_of(family)), cost |-> 0]}
    \cup (IF damaged < MaxDamaged
          THEN {[cells |-> SpeedRows(family, t), cost |-> 1] :
                   t \in Manifests \ {algs_of(family)}}
               \cup {[cells |-> SubSeq(SpeedRows(family, algs_of(family)), 1,
                                       4 * Len(algs_of(family)) - 1),
                      cost |-> 1]}
          ELSE {})

\* speed_processing: pd.read_csv of the pre-processed file, strip, filter
SpeedLoad ==
    /\ pc = "speed_load"
    /\ \E in \in SpeedInputs :
          /\ temp_df' = FilterOperations(in.cells, algs_of(family))
          /\ damaged' = damaged + in.cost
    /\ pc' = "speed_check"
    /\ UNCHANGED <<kem_algs, sig_algs, num_runs, up_mem_algs, family, run_count,
                   alg_idx, operation, new_row, peak_metrics, mem_results_df,
                   speed_csv, mem_csv, exit_code, fs, passed, failed>>
    /\ UNCHANGED lqRest

\* speed_processing: check_data_mismatch(len(temp_df), len(algs), ...)
SpeedCheck ==
    /\ pc = "speed_check"
    /\ IF check_data_mismatch(Len(temp_df), Len(algs_of(family)))
       THEN /\ pc' = "exit"
            /\ exit_code' = 1
            /\ failed' = {<<"speed", family, run_count>>}
            /\ UNCHANGED passed
       ELSE /\ pc' = "speed_write"
            /\ passed' = passed \cup {<<"speed", family, run_count>>}
            /\ UNCHANGED <<exit_code, failed>>
    /\ UNCHANGED <<kem_algs, sig_algs, num_runs, up_mem_algs, family, run_count,
                   alg_idx, operation, temp_df, new_row, peak_metrics,
                   mem_results_df, speed_csv, mem_csv, fs, damaged>>
    /\ UNCHANGED lqRest

\* speed_processing: insert the Algorithm column and temp_df.to_csv
SpeedWrite ==
    /\ pc = "speed_write"
    /\ speed_csv' = [speed_csv EXCEPT ![<<family, run_count>>] =
                         Written(SpeedTable(algs_of(family), temp_df))]
    /\ IF family = "kem"
       THEN /\ family' = "sig"
            /\ pc' = "speed_load"
            /\ UNCHANGED run_count
       ELSE /\ family' = "kem"
            /\ IF run_count < num_runs
               THEN /\ run_count' = run_count + 1
                    /\ pc' = "speed_load"
               ELSE /\ run_count' = 1
                    /\ pc' = "mem_cell"
    /\ UNCHANGED <<kem_algs, sig_algs, num_runs, up_mem_algs, alg_idx, operation,
                   temp_df, new_row, peak_metrics, mem_results_df, mem_csv,
                   exit_code, fs, damaged, passed, failed>>
    /\ UNCHANGED lqRest

CurrentCell == <<family, algs_of(family)[alg_idx], operation, run_count>>

\* what the artifact of the current cell can be when it is opened
ArtifactKinds ==
    IF fs[CurrentCell] # "unread" THEN {fs[CurrentCell]}
    ELSE IF algs_of(family)[alg_idx] \notin up_mem_algs[family] THEN {"missing"}
    ELSE {"complete"}
         \cup (IF damaged < MaxDamaged THEN {"missing", "truncated"} ELSE {})

\* memory_processing: one (algorithm, operation) iteration of a family loop
MemCell ==
    /\ pc = "mem_cell"
    /\ alg_idx <= Len(algs_of(family))
    /\ \E kind \in ArtifactKinds :
          /\ fs' = [fs EXCEPT ![CurrentCell] = kind]
          /\ damaged' = IF /\ fs[CurrentCell] = "unread"
                           /\ algs_of(family)[alg_idx] \in up_mem_algs[family]
                           /\ kind # "complete"
                        THEN damaged + 1 ELSE damaged
          /\ LET r == MemIteration(family, algs_of(family)[alg_idx],
                                   alg_operations(family)[operation + 1],
                                   FileOf(kind), new_row, peak_metrics,
                                   mem_results_df)
             IN /\ new_row' = r.new_row
                /\ peak_metrics' = r.peak_metrics
                /\ mem_results_df' = r.df
    /\ IF operation < 2
       THEN /\ operation' = operation + 1
            /\ UNCHANGED alg_idx
       ELSE /\ operation' = 0
            /\ alg_idx' = alg_idx + 1
    /\ pc' = IF operation = 2 /\ alg_idx = Len(algs_of(family))
             THEN "mem_check" ELSE "mem_cell"
    /\ UNCHANGED <<kem_algs, sig_algs, num_runs, up_mem_algs, family, run_count,
                   temp_df, speed_csv, mem_csv, exit_code, passed, failed>>
    /\ UNCHANGED lqRest

\* memory_processing: check_data_mismatch(len(mem_results_df), len(algs), ...)
MemCheck ==
    /\ pc = "mem_check"
    /\ IF check_data_mismatch(Len(mem_results_df), Len(algs_of(family)))
       THEN /\ pc' = "exit"
            /\ exit_code' = 1
            /\ failed' = {<<"mem", family, run_count>>}
            /\ UNCHANGED passed
       ELSE /\ pc' = "mem_write"
            /\ passed' = passed \cup {<<"mem", family, run_count>>}
            /\ UNCHANGED <<exit_code, failed>>
    /\ UNCHANGED <<kem_algs, sig_algs, num_runs, up_mem_algs, family, run_count,
                   alg_idx, operation, temp_df, new_row, peak_metrics,
                   mem_results_df, speed_csv, mem_csv, fs, damaged>>
    /\ UNCHANGED lqRest

\* memory_processing: mem_results_df.to_csv, then a fresh dataframe
MemWrite ==
    /\ pc = "mem_write"
    /\ mem_csv' = [mem_csv EXCEPT ![<<family, run_count>>] = Written(mem_results_df)]
    /\ mem_results_df' = <<>>
    /\ alg_idx' = 1
    /\ operation' = 0
    /\ IF family = "kem"
       THEN /\ family' = "sig"
            /\ pc' = "mem_cell"
            /\ UNCHANGED run_count
       ELSE /\ family' = "kem"
            /\ IF run_count < num_runs
               THEN /\ run_count' = run_count + 1
                    /\ pc' = "mem_cell"
               ELSE /\ run_count' = run_count
                    /\ pc' = "avg"
    /\ UNCHANGED <<kem_algs, sig_algs, num_runs, up_mem_algs, temp_df, new_row,
                   peak_metrics, speed_csv, exit_code, fs, damaged, passed, failed>>
    /\ UNCHANGED lqRest

\* process_tests: liboqs_avg.avg_mem() and liboqs_avg.avg_speed()
Averaging ==
    /\ pc = "avg"
    /\ pc' = "done"
    /\ UNCHANGED <<kem_algs, sig_algs, num_runs, up_mem_algs, family, run_count,
                   alg_idx, operation, temp_df, new_row, peak_metrics,
                   mem_results_df, speed_csv, mem_csv, exit_code, fs, damaged,
                   passed, failed>>
    /\ UNCHANGED lqRest

Next == SpeedLoad \/ SpeedCheck \/ SpeedWrite \/ MemCell \/ MemCheck \/ MemWrite \/ Averaging

Spec == Init /\ [][Next]_vars

TypeOK ==
    /\ pc \in {"speed_load", "speed_check", "speed_write", "mem_cell",
               "mem_check", "mem_write", "avg", "done", "exit"}
    /\ damaged \in 0..MaxDamaged
    /\ run_count \in 1..num_runs

(***************************************************************************)
(* Vocabulary of the liboqs_parse claims                                   *)
(***************************************************************************)
\* the artifacts the manifest names for the memory table of (f, r)
TableCells(f, r) ==
    {<<f, algs_of(f)[i], o, r>> : i \in 1..Len(algs_of(f)), o \in 0..2}

\* the loop over the cells of table (f, r) has ended: every artifact was
\* opened and the loop is not in progress
TableRead(f, r) ==
    /\ \A c \in TableCells(f, r) : fs[c] # "unread"
    /\ ~(pc = "mem_cell" /\ family = f /\ run_count = r)

\* memory_processing stands at the cardinality check of table (f, r)
AtMemCheck(f, r) == pc = "mem_check" /\ family = f /\ run_count = r

Expected(f) == 3 * Len(algs_of(f))

\* the row of a cell without metrics: algorithm, operation, one blank per
\* metric column
BlankRow(alg, opname) == <<alg, opname, <<>>, <<>>, <<>>, <<>>, <<>>>>

HasBlankMetric(row) == \E k \in 3..Len(row) : row[k] = <<>>

BlankRows(df) == {k \in 1..Len(df) : HasBlankMetric(df[k])}

\* C1: a speed or memory table is on disk only after check_data_mismatch
\* has returned for it, and then it has exactly 3 * len(manifest) rows; a
\* check that fails ends the process with status 1 and the table of that
\* (run, family) is not written.
C1_WrittenTablesPassedCheck ==
    \A t \in Tables :
        /\ IsWritten(speed_csv[t]) =>
              /\ <<"speed", t[1], t[2]>> \in passed
              /\ Len(TableOf(speed_csv[t])) = Expected(t[1])
        /\ IsWritten(mem_csv[t]) =>
              /\ <<"mem", t[1], t[2]>> \in passed
              /\ Len(TableOf(mem_csv[t])) = Expected(t[1])
        /\ <<"speed", t[1], t[2]>> \in failed =>
              /\ ~IsWritten(speed_csv[t])
              /\ pc = "exit" /\ exit_code = 1
        /\ <<"mem", t[1], t[2]>> \in failed =>
              /\ ~IsWritten(mem_csv[t])
              /\ pc = "exit" /\ exit_code = 1

\* two runs parsed to the end: every table of both families is on disk
C1_Witness ==
    /\ pc = "done"
    /\ num_runs = 2
    /\ Len(kem_algs) = 2
    /\ \A t \in Families \X (1..2) : IsWritten(speed_csv[t]) /\ IsWritten(mem_csv[t])

\* no artifact of table (f, r) is missing and get_peak returned None for one
SomePeakNone(f, r) ==
    /\ TableRead(f, r)
    /\ \A c \in TableCells(f, r) : fs[c] \in {"complete", "truncated"}
    /\ \E c \in TableCells(f, r) : fs[c] = "truncated"

\* C2: in the KEM loop and in the signature loop, a cell for which get_peak
\* returns None gets the row (algorithm, operation, one blank per metric
\* column), the run goes on and the table reaches 3 * len(manifest) rows.
C2_NoneGivesBlankRow ==
    \A t \in Tables :
        (AtMemCheck(t[1], t[2]) /\ SomePeakNone(t[1], t[2])) =>
            /\ Len(mem_results_df) = Expected(t[1])
            /\ \A i \in 1..Len(algs_of(t[1])), o \in 0..2 :
                  fs[<<t[1], algs_of(t[1])[i], o, t[2]>>] = "truncated" =>
                     mem_results_df[3 * (i - 1) + o + 1]
                        = BlankRow(algs_of(t[1])[i], alg_operations(t[1])[o + 1])

\* exactly one artifact of table (f, r) is missing, all others are complete
OneMissing(f, r) ==
    /\ TableRead(f, r)
    /\ Cardinality({c \in TableCells(f, r) : fs[c] = "missing"}) = 1
    /\ \A c \in TableCells(f, r) : fs[c] \in {"complete", "missing"}

\* the iterations of table (f, r) that name a missing artifact
MissingIterations(f, r) ==
    {<<i, o>> \in (1..Len(algs_of(f))) \X (0..2) :
        fs[<<f, algs_of(f)[i], o, r>>] = "missing"}

C4_AnyDriftIsFatal ==
    \A f \in Families :
        up_mem_algs[f] # Range(algs_of(f)) =>
            \A r \in Runs : ~IsWritten(mem_csv[<<f, r>>])

\* the manifest of family f names an algorithm that has no artifacts
NamesAbsentAlg(f) == \E a \in Range(algs_of(f)) : a \notin up_mem_algs[f]

\* C4 (amended): whenever the manifest names an algorithm that has no
\* artifacts, memory_processing takes the fatal cardinality path at the first
\* table of that family and no memory table of the family is written;
\* artifacts of an algorithm the manifest lacks are never opened and do not
\* stop the run.
C4_AbsentAlgIsFatal ==
    \A f \in Families :
        /\ NamesAbsentAlg(f) =>
              /\ \A r \in Runs : ~IsWritten(mem_csv[<<f, r>>])
              /\ pc \notin {"avg", "done"}
              /\ (TableRead(f, 1) /\ ~AtMemCheck(f, 1)) =>
                    /\ pc = "exit"
                    /\ exit_code = 1
                    /\ failed = {<<"mem", f, 1>>}
        /\ \A c \in Cells : c[1] = f /\ c[2] \notin Range(algs_of(f)) => fs[c] = "unread"

\* the signature manifest names two algorithms, one without artifacts: the
\* run has ended at the first signature memory check with three rows
C4_Witness ==
    /\ NamesAbsentAlg("sig")
    /\ Len(sig_algs) = 2
    /\ Len(mem_results_df) = 3
    /\ IsWritten(mem_csv[<<"kem", 1>>])
    /\ pc = "exit"
    /\ failed = {<<"mem", "sig", 1>>}

(***************************************************************************)
(* SpecSpeedTable: one call of get_speed_metrics on an arbitrary file      *)
(***************************************************************************)
InitSpeedTable ==
    /\ st_file \in SpeedFiles
    /\ st_alg_type \in AlgTypes
    /\ st_result = SpeedRaise
    /\ st_pc = "call"
    /\ StRestIdle

CallGetSpeedMetrics ==
    /\ st_pc = "call"
    /\ st_result' = get_speed_metrics(st_file, st_alg_type)
    /\ st_pc' = "done"
    /\ UNCHANGED <<st_file, st_alg_type>>
    /\ UNCHANGED stRest

NextSpeedTable == CallGetSpeedMetrics

SpecSpeedTable == InitSpeedTable /\ [][NextSpeedTable]_vars

(***************************************************************************)
(* Vocabulary of the get_speed_metrics claims                              *)
(***************************************************************************)
\* a start-sentinel line, as the claim words it
SentinelLine(line) ==
    \/ Contains(line, <<"k", "e", "y", "g", "e", "n", "s", "/", "s">>)
    \/ Contains(line, <<"s", "i", "g", "n">>) /\ Contains(line, <<"v", "e", "r", "i", "f", "y">>)

StSentinels == {i \in 1..Len(st_file.lines) : SentinelLine(st_file.lines[i])}

\* positions of the lines after the first sentinel line
StAfterFirst ==
    IF StSentinels = {} THEN {}
    ELSE {i \in 1..Len(st_file.lines) : i > SetMin(StSentinels)}

StReturned == st_pc = "done" /\ st_result.kind = "return"

\* C11 as stated: the returned table has one row per line after the first
\* start-sentinel line.
C11_EveryLaterLineIsRow ==
    StReturned => Len(st_result.df) = Cardinality(StAfterFirst)

\* C11, amended: the returned table has one row per line after the first
\* start-sentinel line that is not itself a start-sentinel line (a later
\* sentinel line is skipped, not turned into a row), in file order; the
\* call returns a table exactly when the file exists and each such line
\* has as many tokens as the header has columns.
C11_EveryLaterDataLineIsRow ==
    LET data == StAfterFirst \ StSentinels
    IN st_pc = "done" =>
          /\ StReturned =>
                /\ Len(st_result.df) = Cardinality(data)
                /\ \A i \in data :
                      st_result.df[Cardinality({j \in data : j <= i})][1]
                          = Split(st_file.lines[i])[1]
          /\ StReturned <=>
                /\ st_file.exists
                /\ \A i \in data : Len(Split(st_file.lines[i])) = 7

\* a file with a second sentinel line after the first and a data row
C11_Witness ==
    /\ StReturned
    /\ Cardinality(StSentinels) >= 2
    /\ Len(st_result.df) >= 1
    /\ StAfterFirst \cap StSentinels # {}

\* the tokens of the lines that get_speed_metrics turned into rows, in order
StDataCells ==
    LET data == StAfterFirst \ StSentinels
        pos(k) == CHOOSE i \in data : Cardinality({j \in data : j <= i}) = k
    IN [k \in 1..Cardinality(data) |-> Split(st_file.lines[pos(k)])]

EndsInS(cell) == cell # <<>> /\ cell[Len(cell)] = "s"

WithoutLast(cell) == SubSeq(cell, 1, Len(cell) - 1)

WithoutEveryS(cell) == SelectSeq(cell, LAMBDA c : c # "s")

\* C12 as stated: in every row of the table the label cell is the token
\* itself, the number of cells is kept, and a later cell is the token
\* without its trailing "s" (the token itself when it does not end in "s").
C12_OnlyTrailingSuffixDropped ==
    StReturned =>
        \A k \in 1..Len(st_result.df) :
            LET cells == StDataCells[k]
                row == st_result.df[k]
            IN /\ Len(row) = Len(cells)
               /\ row[1] = cells[1]
               /\ \A c \in 2..Len(cells) :
                     row[c] = IF EndsInS(cells[c]) THEN WithoutLast(cells[c])
                              ELSE cells[c]

\* C12, amended: in every row of the table the label cell is the token
\* itself, the number of cells is kept, and a later cell is the token with
\* every "s" character removed, wherever it stands; this is the token
\* without its unit suffix exactly when its only "s" is its last character.
C12_EverySRemovedAfterLabel ==
    StReturned =>
        \A k \in 1..Len(st_result.df) :
            LET cells == StDataCells[k]
                row == st_result.df[k]
            IN /\ Len(row) = Len(cells)
               /\ row[1] = cells[1]
               /\ \A c \in 2..Len(cells) :
                     /\ row[c] = WithoutEveryS(cells[c])
                     /\ (EndsInS(cells[c]) /\ "s" \notin Range(WithoutLast(cells[c])))
                           => row[c] = WithoutLast(cells[c])

\* a returned row with a cell that ends in "s" and a cell that holds an "s"
\* elsewhere
C12_Witness ==
    /\ StReturned
    /\ \E k \in 1..Len(st_result.df) :
          /\ \E c \in 2..Len(StDataCells[k]) :
                /\ EndsInS(StDataCells[k][c])
                /\ st_result.df[k][c] = WithoutLast(StDataCells[k][c])
          /\ \E c \in 2..Len(StDataCells[k]) :
                /\ ~EndsInS(StDataCells[k][c])
                /\ st_result.df[k][c] # StDataCells[k][c]

(***************************************************************************)
(* SpecSpeedProc: speed_processing of one run, in tls_performance_data_    *)
(* parse (with its entry-count check) and in oqs_provider_parse            *)
(***************************************************************************)
SqKey == SpeedKeys[sq_iter]

InitSpeedProc ==
    /\ sq_module \in {"tls", "oqs"}
    /\ sq_lists \in [SpeedKeySet -> 0..MaxAlgs]
    /\ sq_iter = 1
    /\ sq_df = SpeedRaise
    /\ sq_pc = "extract"
    /\ sq_csv = [k \in SpeedKeySet |-> NotWritten]
    /\ sq_exit_code = -1
    /\ sq_damaged = 0
    /\ SqRestIdle

\* speed_metrics_df = get_speed_metrics(speed_filepath, alg_type, ...); an
\* exception it raises is caught nowhere and ends the process
SqExtract ==
    /\ sq_pc = "extract"
    /\ \E in \in SpeedFileInputs(SqKey[2], sq_lists[SqKey], MaxDamaged - sq_damaged) :
          /\ sq_df' = get_speed_metrics(in.file, SqKey[2])
          /\ sq_damaged' = sq_damaged + in.cost
    /\ IF sq_df'.kind = "raise"
       THEN sq_pc' = "raise" /\ sq_exit_code' = 1
       ELSE /\ sq_pc' = IF sq_module = "tls" THEN "check" ELSE "write"
            /\ UNCHANGED sq_exit_code
    /\ UNCHANGED <<sq_module, sq_lists, sq_iter, sq_csv>>
    /\ UNCHANGED sqRest

\* tls speed_processing: the entry-count check and its sys.exit(1)
SqCheck ==
    /\ sq_pc = "check"
    /\ IF SpeedCountMismatch(Len(sq_df.df), sq_lists[SqKey])
       THEN sq_pc' = "exit" /\ sq_exit_code' = 1
       ELSE sq_pc' = "write" /\ UNCHANGED sq_exit_code
    /\ UNCHANGED <<sq_module, sq_lists, sq_iter, sq_df, sq_csv, sq_damaged>>
    /\ UNCHANGED sqRest

\* speed_metrics_df.to_csv(output_filepath), then the next (test_type, alg_type)
SqWrite ==
    /\ sq_pc = "write"
    /\ sq_csv' = [sq_csv EXCEPT ![SqKey] = Written(sq_df.df)]
    /\ IF sq_iter < Len(SpeedKeys)
       THEN sq_iter' = sq_iter + 1 /\ sq_pc' = "extract"
       ELSE sq_pc' = "done" /\ UNCHANGED sq_iter
    /\ UNCHANGED <<sq_module, sq_lists, sq_df, sq_exit_code, sq_damaged>>
    /\ UNCHANGED sqRest

NextSpeedProc == SqExtract \/ SqCheck \/ SqWrite

SpecSpeedProc == InitSpeedProc /\ [][NextSpeedProc]_vars

(***************************************************************************)
(* Vocabulary of the speed_processing claims                               *)
(***************************************************************************)
SqWrittenAsListed(k) ==
    IsWritten(sq_csv[k]) => Len(TableOf(sq_csv[k])) = sq_lists[k]

\* C13: in tls_performance_data_parse get_speed_metrics hands over tables of
\* any row count, speed_processing compares the count with the length of the
\* alg-list of that (test type, family) before writing, a difference ends
\* the process with status 1 and without that table, and so every
\* throughput CSV on disk has as many rows as its alg-list.
C13_TlsSpeedTablesChecked ==
    sq_module = "tls" =>
        /\ \A k \in SpeedKeySet : SqWrittenAsListed(k)
        /\ sq_pc = "write" => Len(sq_df.df) = sq_lists[SqKey]
        /\ sq_pc = "exit" =>
              /\ sq_exit_code = 1
              /\ Len(sq_df.df) # sq_lists[SqKey]
              /\ ~IsWritten(sq_csv[SqKey])
        /\ (sq_pc = "check" /\ Len(sq_df.df) # sq_lists[SqKey]) => sq_exit_code = -1

\* get_speed_metrics returned a table one row short, the check ended the
\* run, the earlier tables are on disk and this one is not
C13_Witness ==
    /\ sq_module = "tls"
    /\ sq_pc = "exit"
    /\ sq_iter > 1
    /\ sq_df.kind = "return"
    /\ Len(sq_df.df) = sq_lists[SqKey] - 1
    /\ IsWritten(sq_csv[SpeedKeys[1]])

\* C14: in oqs_provider_parse every throughput table on disk has the row
\* count its alg-list makes expected, and a table with another count is
\* never written.
C14_OqsSpeedTablesChecked ==
    sq_module = "oqs" =>
        /\ \A k \in SpeedKeySet : SqWrittenAsListed(k)
        /\ sq_pc = "write" => Len(sq_df.df) = sq_lists[SqKey]

(***************************************************************************)
(* SpecSplit: pqc_based_processing of one run (both test types)            *)
(***************************************************************************)
InitSplit ==
    /\ hs_run \in Runs
    /\ hs_type_index = 0
    /\ hs_sigs = <<>>
    /\ hs_kems = <<>>
    /\ hs_base = NotWritten
    /\ hs_sig_idx = 1
    /\ hs_subsets = [s \in SigNames |-> NotWritten]
    /\ hs_pc = "pre"
    /\ hs_exit_code = -1
    /\ hs_actual_files = 0
    /\ HsRestIdle

\* pqc_based_pre_processing(current_run, type_index): the alg-lists of the
\* test type come into view, the run-1 file count is checked, the base
\* results are assembled and written
HsPre ==
    /\ hs_pc = "pre"
    /\ \E sigs \in SigManifests, kems \in Manifests :
       \E actual_files \in {n \in {Len(sigs) * Len(kems) - 1, Len(sigs) * Len(kems),
                                   Len(sigs) * Len(kems) + 1} : n >= 0} :
          /\ hs_sigs' = sigs
          /\ hs_actual_files' = actual_files
          /\ hs_kems' = kems
          /\ IF hs_run = 1 /\ FileCountMismatch(sigs, kems, actual_files)
             THEN /\ hs_pc' = "exit"
                  /\ hs_exit_code' = 1
                  /\ UNCHANGED hs_base
             ELSE /\ hs_pc' = "split"
                  /\ hs_base' = Written(to_csv(BaseRows(sigs, kems)))
                  /\ UNCHANGED hs_exit_code
    /\ hs_sig_idx' = 1
    /\ hs_subsets' = [s \in SigNames |-> NotWritten]
    /\ UNCHANGED <<hs_run, hs_type_index>>
    /\ UNCHANGED hsRest

\* one pass of the loop over the signature alg-list: read the base
\* results, filter them on the signature name, write the subset file
HsSplit ==
    /\ hs_pc = "split"
    /\ LET sig == hs_sigs[hs_sig_idx]
           base_df == read_csv(TableOf(hs_base))
       IN hs_subsets' = [hs_subsets EXCEPT ![sig] =
                            Written(to_csv(current_sig_df(base_df, sig)))]
    /\ IF hs_sig_idx < Len(hs_sigs)
       THEN /\ hs_sig_idx' = hs_sig_idx + 1
            /\ UNCHANGED <<hs_pc, hs_type_index>>
       ELSE /\ hs_sig_idx' = 1
            /\ IF hs_type_index = 0
               THEN hs_type_index' = 1 /\ hs_pc' = "pre"
               ELSE hs_pc' = "done" /\ UNCHANGED hs_type_index
    /\ UNCHANGED <<hs_run, hs_sigs, hs_kems, hs_base, hs_exit_code,
                   hs_actual_files>>
    /\ UNCHANGED hsRest

NextSplit == HsPre \/ HsSplit

SpecSplit == InitSplit /\ [][NextSplit]_vars

(***************************************************************************)
(* Vocabulary of the pqc_based_processing claims                           *)
(***************************************************************************)
\* the signature loop of a test type has ended and its files are on disk
HsSplitDone == hs_pc = "done" \/ (hs_pc = "pre" /\ hs_type_index = 1)

\* the subset files that hold a row equal to row r of the base results
HsFilesOf(r) ==
    {s \in SigNames :
        /\ IsWritten(hs_subsets[s])
        /\ \E k \in 1..Len(TableOf(hs_subsets[s])) :
              TableOf(hs_subsets[s])[k] = TableOf(hs_base)[r]}

\* C15: after pqc_based_processing has split the base results of a test
\* type, every row of them is in exactly one subset file, the file of the
\* signature algorithm in its "Signing Algorithm" column, whatever names the
\* signature alg-list holds.
C15_RowsPartitioned ==
    HsSplitDone =>
        \A r \in 1..Len(TableOf(hs_base)) : HsFilesOf(r) = {TableOf(hs_base)[r][1]}

(***************************************************************************)
(* SpecCheck: one call of liboqs_parse.check_data_mismatch                 *)
(***************************************************************************)
InitCheck ==
    /\ cd_df_len \in 0..MaxDfLen
    /\ cd_alg_list_len \in 0..MaxListLen
    /\ cd_pc = "call"
    /\ cd_exit_code = -1
    /\ CdRestIdle

CallCheckDataMismatch ==
    /\ cd_pc = "call"
    /\ IF check_data_mismatch(cd_df_len, cd_alg_list_len)
       THEN cd_pc' = "exit" /\ cd_exit_code' = 1
       ELSE cd_pc' = "return" /\ UNCHANGED cd_exit_code
    /\ UNCHANGED <<cd_df_len, cd_alg_list_len>>
    /\ UNCHANGED cdRest

NextCheck == CallCheckDataMismatch

SpecCheck == InitCheck /\ [][NextCheck]_vars

\* C16: check_data_mismatch ends the process with status 1 exactly when
\* df_len differs from 3 * alg_list_len, and otherwise returns with nothing
\* changed.
C16_ExitIffCountDiffers ==
    /\ cd_pc = "exit" => (cd_exit_code = 1 /\ cd_df_len # 3 * cd_alg_list_len)
    /\ cd_pc = "return" => (cd_exit_code = -1 /\ cd_df_len = 3 * cd_alg_list_len)
    /\ cd_pc \in {"call", "exit", "return"}

\* the exit on a table one row short of a two-algorithm list
C16_Witness == cd_pc = "exit" /\ cd_exit_code = 1 /\ cd_alg_list_len = 2 /\ cd_df_len = 5

\* every artifact the manifest names for table (f, r) was found with its
\* peak record
AllComplete(f, r) == \A c \in TableCells(f, r) : fs[c] = "complete"

\* the fixed operation triple of a family, as the claim names it
OperationTriple(f) ==
    IF f = "kem" THEN <<OpKeygen, OpEncaps, OpDecaps>>
    ELSE <<OpKeypair, OpSign, OpVerify>>

\* the metric fields of the peak record of a complete artifact
CompleteMetrics == <<<<"7">>, <<"2", "0", "4", "8">>, <<"6">>, <<"5">>, <<"0">>>>

\* table df has 3 * n rows in manifest order then operation order, each
\* with the metrics of its artifact and no blank field
InManifestOrder(f, df) ==
    /\ Len(df) = 3 * Len(algs_of(f))
    /\ \A i \in 1..Len(algs_of(f)) : \A j \in 0..2 :
          df[3 * (i - 1) + j + 1]
              = <<algs_of(f)[i], OperationTriple(f)[j + 1]>> \o CompleteMetrics
    /\ \A k \in 1..Len(df) : ~HasBlankMetric(df[k])

\* C17: when every artifact named by the manifest exists and holds its peak
\* record, the memory table of the family has exactly 3 * n rows with no
\* blank field, row 3*i + j carrying algorithm i of the manifest and
\* operation j of the family's operation triple; the table is checked and
\* written in that shape.
C17_CompleteArtifactsGiveOrderedTable ==
    \A t \in Tables :
        AllComplete(t[1], t[2]) =>
            /\ AtMemCheck(t[1], t[2]) => InManifestOrder(t[1], mem_results_df)
            /\ IsWritten(mem_csv[t]) => InManifestOrder(t[1], TableOf(mem_csv[t]))
            /\ (pc = "exit" /\ failed # {}) => failed # {<<"mem", t[1], t[2]>>}

\* the signature table of the last run, written for a manifest of two
\* different algorithms whose artifacts are all complete
C17_Witness ==
    /\ num_runs = MaxRuns
    /\ Len(sig_algs) = 2
    /\ sig_algs[1] # sig_algs[2]
    /\ AllComplete("sig", num_runs)
    /\ IsWritten(mem_csv[<<"sig", num_runs>>])
    /\ Len(TableOf(mem_csv[<<"sig", num_runs>>])) = 6

(***************************************************************************)
(* SpecEnv: one invocation of a parsing module, from setup_parse_env to    *)
(* the start of the parsing                                                *)
(***************************************************************************)
InitEnv ==
    /\ ev_module \in Modules
    /\ ev_machine_id \in Machines
    /\ ev_replace \in BOOLEAN
    /\ ev_marker \in BOOLEAN
    /\ ev_lists \in BOOLEAN
    /\ ev_up_root \in BOOLEAN
    /\ ev_up_mach \in BOOLEAN
    /\ ev_up_mach => ev_up_root
    /\ ev_results \in [Machines -> {"absent", "old"}]
    /\ ev_pc = "setup"
    /\ ev_exit_code = -1
    /\ ev_done = {}
    /\ ev_answers = <<>>
    /\ EvRestIdle

\* setup_parse_env(root_dir)
EnvSetup ==
    /\ ev_pc = "setup"
    /\ IF MarkerMissing(ev_marker)
       THEN /\ ev_pc' = "exit"
            /\ ev_exit_code' = 1
            /\ UNCHANGED ev_done
       ELSE IF ~ev_lists
       THEN /\ ev_pc' = "raise"
            /\ ev_exit_code' = 1
            /\ ev_done' = ev_done \cup {"paths"}
       ELSE /\ ev_pc' = "up_check"
            /\ ev_done' = ev_done \cup {"paths", "manifests"}
            /\ UNCHANGED ev_exit_code
    /\ UNCHANGED <<ev_answers, ev_module, ev_machine_id, ev_replace, ev_marker, ev_lists,
                   ev_up_root, ev_up_mach, ev_results>>
    /\ UNCHANGED evRest

\* process_tests up to the call of handle_results_dir_creation
EnvUpCheck ==
    /\ ev_pc = "up_check"
    /\ IF UpResultsMissing(ev_module, ev_up_root, ev_up_mach)
       THEN ev_pc' = "exit" /\ ev_exit_code' = 1
       ELSE ev_pc' = "handle" /\ UNCHANGED ev_exit_code
    /\ UNCHANGED <<ev_answers, ev_module, ev_machine_id, ev_replace, ev_marker, ev_lists,
                   ev_up_root, ev_up_mach, ev_results, ev_done>>
    /\ UNCHANGED evRest

\* handle_results_dir_creation up to its prompt (oqs_provider_parse has no
\* replace_old_results parameter)
EnvHandle ==
    /\ ev_pc = "handle"
    /\ IF ~OldResultsPresent(ev_results, ev_machine_id)
       THEN /\ ev_results' = makedirs(ev_results, ev_machine_id)
            /\ ev_done' = ev_done \cup {"handle", "makedirs"}
            /\ ev_pc' = "parse"
       ELSE IF ev_replace /\ ev_module # "oqs"
       THEN /\ ev_results' = makedirs(rmtree(ev_results), ev_machine_id)
            /\ ev_done' = ev_done \cup {"handle", "rmtree", "makedirs"}
            /\ ev_pc' = "parse"
       ELSE /\ ev_pc' = "prompt"
            /\ ev_done' = ev_done \cup {"handle"}
            /\ UNCHANGED ev_results
    /\ UNCHANGED <<ev_answers, ev_module, ev_machine_id, ev_replace, ev_marker, ev_lists,
                   ev_up_root, ev_up_mach, ev_exit_code>>
    /\ UNCHANGED evRest

\* one pass of the prompt loop: user_choice = input("Enter option: ")
EnvAnswer ==
    /\ ev_pc = "prompt"
    /\ \E user_choice \in UserChoices :
          /\ PromptOutcome(user_choice) = "again" => Len(ev_answers) < MaxAnswers
          /\ ev_answers' = Append(ev_answers, user_choice)
          /\ IF PromptOutcome(user_choice) = "replace"
             THEN /\ ev_results' = makedirs(rmtree(ev_results), ev_machine_id)
                  /\ ev_done' = ev_done \cup {"rmtree", "makedirs"}
                  /\ ev_pc' = "parse"
                  /\ UNCHANGED ev_exit_code
             ELSE IF PromptOutcome(user_choice) = "exit"
             THEN /\ ev_pc' = "exit"
                  /\ ev_exit_code' = 0
                  /\ UNCHANGED <<ev_results, ev_done>>
             ELSE IF PromptOutcome(user_choice) = "wait"
             THEN /\ ev_pc' = "wait"
                  /\ UNCHANGED <<ev_results, ev_done, ev_exit_code>>
             ELSE UNCHANGED <<ev_pc, ev_results, ev_done, ev_exit_code>>
    /\ UNCHANGED <<ev_module, ev_machine_id, ev_replace, ev_marker, ev_lists,
                   ev_up_root, ev_up_mach>>
    /\ UNCHANGED evRest

\* one pass of the wait loop of option 3: input(...), then the test
EnvWait ==
    /\ ev_pc = "wait"
    /\ IF OldResultsPresent(ev_results, ev_machine_id)
       THEN UNCHANGED <<ev_pc, ev_results, ev_done>>
       ELSE /\ ev_results' = makedirs(ev_results, ev_machine_id)
            /\ ev_done' = ev_done \cup {"makedirs"}
            /\ ev_pc' = "parse"
    /\ UNCHANGED <<ev_answers, ev_module, ev_machine_id, ev_replace, ev_marker, ev_lists,
                   ev_up_root, ev_up_mach, ev_exit_code>>
    /\ UNCHANGED evRest

\* the user moves the old results of the machine away while the script
\* stands at an input()
EnvUserMoves ==
    /\ ev_pc \in {"prompt", "wait"}
    /\ ev_results[ev_machine_id] = "old"
    /\ ev_results' = [ev_results EXCEPT ![ev_machine_id] = "absent"]
    /\ UNCHANGED <<ev_answers, ev_module, ev_machine_id, ev_replace, ev_marker, ev_lists,
                   ev_up_root, ev_up_mach, ev_pc, ev_exit_code, ev_done>>
    /\ UNCHANGED evRest

\* the parsing that follows: pre_speed_processing / output_processing open
\* the artifacts of the machine; without its up-results directory the first
\* open() or listdir() raises (liboqs_parse has created up_speed_dir there
\* before)
EnvParse ==
    /\ ev_pc = "parse"
    /\ IF ev_up_mach
       THEN /\ ev_pc' = "parsed"
            /\ ev_done' = ev_done \cup {"extract", "write"}
            /\ UNCHANGED ev_exit_code
       ELSE /\ ev_pc' = "raise"
            /\ ev_exit_code' = 1
            /\ ev_done' = IF ev_module = "liboqs" THEN ev_done \cup {"up_speed_dir"}
                          ELSE ev_done
    /\ UNCHANGED <<ev_answers, ev_module, ev_machine_id, ev_replace, ev_marker, ev_lists,
                   ev_up_root, ev_up_mach, ev_results>>
    /\ UNCHANGED evRest

NextEnv ==
    EnvSetup \/ EnvUpCheck \/ EnvHandle \/ EnvAnswer \/ EnvWait \/ EnvUserMoves
    \/ EnvParse

SpecEnv == InitEnv /\ [][NextEnv]_vars

(***************************************************************************)
(* Vocabulary of the entry claims                                          *)
(***************************************************************************)
\* handle_results_dir_creation has been entered
EvHandleRan == "handle" \in ev_done

\* C18: in liboqs_parse, when the up-results directory of the requested
\* Machine-ID does not exist, the run ends with status 1 before
\* handle_results_dir_creation runs: nothing is removed and no directory is
\* created.
C18_MissingMachineDirAbortsFirst ==
    (ev_module = "liboqs" /\ ~ev_up_mach) =>
        /\ ~EvHandleRan
        /\ ev_done \cap {"rmtree", "makedirs", "up_speed_dir"} = {}
        /\ ev_results \in [Machines -> {"absent", "old"}]
        /\ ev_pc \in {"setup", "up_check", "exit", "raise"}
        /\ ev_pc = "exit" => ev_exit_code = 1

\* C19: in every parsing module, a root without the marker file ends
\* setup_parse_env with status 1 before a path is recorded or an alg-list
\* is opened, and nothing is extracted, removed, created or written in that
\* run.
C19_NoMarkerNoRun ==
    ~ev_marker =>
        /\ ev_pc \in {"setup", "exit"}
        /\ ev_pc = "exit" => ev_exit_code = 1
        /\ ev_done = {}
        /\ ev_results \in [Machines -> {"absent", "old"}]

\* a root without the marker, with alg-lists, artifacts and old results in
\* place: the run has ended in setup_parse_env
C19_Witness ==
    /\ ~ev_marker
    /\ ev_pc = "exit"
    /\ ev_exit_code = 1
    /\ ev_lists /\ ev_up_mach
    /\ ev_results[ev_machine_id] = "old"

(***************************************************************************)
(* The reuse flag of get_metrics                                           *)
(***************************************************************************)
\* the lines of the file that the loop of get_metrics has read so far
GmLinesRead == SubSeq(gm_file.lines, 1, gm_line - 1)

\* a line read so far contains "reuse"
GmReuseRead == FirstReuseLine(GmLinesRead) <= Len(GmLinesRead)

\* C20: within one call of get_metrics the flag is false until the first
\* line containing "reuse" has been read and true from that line on, for
\* every later line up to the end of the file.
C20_FlagTrueFromFirstReuseLine ==
    gm_pc # "open" => (session_metrics_flag <=> GmReuseRead)

\* a "reuse" line has been read and at least one line without "reuse" after
\* it, the flag still stands
C20_Witness ==
    /\ gm_pc = "loop"
    /\ session_metrics_flag
    /\ GmReuseRead
    /\ FirstReuseLine(GmLinesRead) < Len(GmLinesRead)
    /\ ~Contains(GmLinesRead[Len(GmLinesRead)], ReuseWord)

(***************************************************************************)
(* The end of the scan of get_metrics                                      *)
(***************************************************************************)
\* the "real" lines of the first-use block: the elif branch, before any
\* line containing "reuse"
FirstUseRealLines(lines) ==
    {k \in 1..Len(lines) : /\ IsRealLine(lines[k])
                           /\ ~IsUserLine(lines[k])
                           /\ k < FirstReuseLine(lines)}

\* number of fields of current_row taken from line k
FieldsFrom(k) == Cardinality({i \in 1..Len(gm_origin) : gm_origin[i] = k})

\* what a line of the reuse block contributes when it is captured whole
ReuseFieldsOf(line) ==
    IF IsUserLine(line) THEN 3 ELSE IF IsRealLine(line) THEN 2 ELSE 0

\* the first-use call: the first "real" line of the first-use block is the
\* last line read and the last line a field comes from
FirstUseScanEnds ==
    LET reals == FirstUseRealLines(gm_file.lines)
    IN reals # {} =>
          /\ gm_line <= SetMin(reals) + 1
          /\ \A i \in 1..Len(gm_origin) : gm_origin[i] <= SetMin(reals)

\* the reuse call: the scan reaches the end of the file and every line from
\* the first "reuse" line on has given its three or two fields
ReuseScanComplete ==
    /\ gm_line = Len(gm_file.lines) + 1
    /\ \A k \in FirstReuseLine(gm_file.lines)..Len(gm_file.lines) :
          FieldsFrom(k) = ReuseFieldsOf(gm_file.lines[k])

C22_RowBufferEmptyAtIterationStart ==
    /\ pc = "mem_cell" => new_row = <<>>
    /\ pc \in {"mem_cell", "mem_check"} =>
          \A i \in 1..Len(algs_of(family)) : \A o \in 0..2 :
             fs[<<family, algs_of(family)[i], o, run_count>>] = "complete" =>
                \E k \in 1..Len(mem_results_df) :
                   /\ mem_results_df[k][1] = algs_of(family)[i]
                   /\ mem_results_df[k][2] = alg_operations(family)[o + 1]

(***************************************************************************)
(* The prompt of handle_results_dir_creation                               *)
(***************************************************************************)
\* the step reads an answer at "Enter option: "
EvAnswered == ev_answers' # ev_answers

EvLastAnswer == ev_answers[Len(ev_answers)]

\* C23: an answer other than "1", "2" or "3" is never fatal: it changes
\* nothing on the filesystem and the prompt is shown again; the prompt loop
\* is left only by a valid option; under option 3 the wait loop is left only
\* once the old result directories no longer exist.
C23_InvalidAnswerReprompts ==
    [][/\ (EvAnswered /\ EvLastAnswer' \notin {"1", "2", "3"}) =>
             /\ ev_pc' = "prompt"
             /\ ev_exit_code' = -1
             /\ ev_results' = ev_results
             /\ ev_done' = ev_done
       /\ (ev_pc = "prompt" /\ ev_pc' # "prompt") =>
             /\ EvAnswered
             /\ EvLastAnswer' \in {"1", "2", "3"}
       /\ (ev_pc = "wait" /\ ev_pc' # "wait") =>
             /\ ~OldResultsPresent(ev_results, ev_machine_id)
             /\ ev_pc' = "parse"]_vars

\* two answers that are no option were typed, the old results are in place
\* and the prompt stands again
C23_Witness ==
    /\ ev_pc = "prompt"
    /\ Len(ev_answers) = 2
    /\ ev_answers[1] \notin {"1", "2", "3"}
    /\ ev_answers[2] \notin {"1", "2", "3"}
    /\ ev_results[ev_machine_id] = "old"
    /\ ev_exit_code = -1
    /\ ev_done \cap {"rmtree", "makedirs"} = {}

\* C25: replacing the old results of Machine-ID m (option 1 or the
\* --replace-old-results flag) removes only the parsed results of machine
\* m: the parsed results of every other Machine-ID under results_dir are
\* unchanged by handle_results_dir_creation.
C25_OtherMachinesKept ==
    [][\A m \in Machines \ {ev_machine_id} : ev_results'[m] = ev_results[m]]_vars

\* handle_results_dir_creation returns to process_tests in this step
EvHandleReturns == ev_pc \in {"handle", "prompt", "wait"} /\ ev_pc' = "parse"

\* C30: whenever handle_results_dir_creation returns normally (no old
\* results, replace flag, option 1 or option 3) the output directories of
\* the machine exist and were created by this call, so they hold nothing of
\* an earlier parse; option 2 ends the process and leaves the filesystem as
\* it was.
C30_ReturnsWithFreshDirectories ==
    [][/\ EvHandleReturns =>
             /\ ev_results'[ev_machine_id] = "new"
             /\ "makedirs" \in ev_done'
       /\ (EvAnswered /\ EvLastAnswer' = "2") =>
             /\ ev_pc' = "exit"
             /\ ev_results' = ev_results
             /\ ev_done' = ev_done]_vars

\* option 3 was chosen, the user moved the old results away and the call
\* returned with directories it created
C30_Witness ==
    /\ ev_pc = "parse"
    /\ ev_answers # <<>>
    /\ EvLastAnswer = "3"
    /\ ev_results[ev_machine_id] = "new"
    /\ "rmtree" \notin ev_done

(***************************************************************************)
(* What the cardinality check cannot see                                   *)
(***************************************************************************)
\* the manifest of family f lists one algorithm twice and omits another
\* one whose artifacts are in the up-results directory
DuplicateManifest(f) ==
    /\ Len(algs_of(f)) = 2
    /\ algs_of(f)[1] = algs_of(f)[2]
    /\ up_mem_algs[f] \ Range(algs_of(f)) # {}

\* the table df of a duplicate manifest: 3 * len(manifest) rows, the three
\* rows of the listed algorithm twice, no row of the omitted one
DuplicateTable(f, df) ==
    /\ Len(df) = Expected(f)
    /\ \A k \in 1..Len(df) : df[k][1] = algs_of(f)[1]
    /\ \A k \in 1..3 : df[k] = df[k + 3]

\* C24: the cardinality check of liboqs_parse compares counts only.  A
\* memory dataset read under a manifest that lists one algorithm twice and
\* omits a different one gives a table of 3 * len(manifest) rows, passes
\* check_data_mismatch and is written; no check fails for it.
C24_DuplicateManifestPasses ==
    \A t \in Tables :
        (DuplicateManifest(t[1]) /\ TableRead(t[1], t[2]) /\ AllComplete(t[1], t[2])) =>
            /\ <<"mem", t[1], t[2]>> \notin failed
            /\ \/ /\ AtMemCheck(t[1], t[2])
                  /\ DuplicateTable(t[1], mem_results_df)
                  /\ ~check_data_mismatch(Len(mem_results_df), Len(algs_of(t[1])))
               \/ /\ pc = "mem_write" /\ family = t[1] /\ run_count = t[2]
                  /\ <<"mem", t[1], t[2]>> \in passed
                  /\ DuplicateTable(t[1], mem_results_df)
               \/ /\ <<"mem", t[1], t[2]>> \in passed
                  /\ IsWritten(mem_csv[t])
                  /\ DuplicateTable(t[1], TableOf(mem_csv[t]))

\* the run has ended without an error, its KEM manifest lists one algorithm
\* twice while the artifacts of two algorithms are there, and the KEM memory
\* table of the first run is on disk with six rows
C24_Witness ==
    /\ pc = "done"
    /\ exit_code = -1
    /\ DuplicateManifest("kem")
    /\ AllComplete("kem", 1)
    /\ IsWritten(mem_csv[<<"kem", 1>>])
    /\ Len(TableOf(mem_csv[<<"kem", 1>>])) = 6

(***************************************************************************)
(* The order of process_tests: tables, then averaging                      *)
(***************************************************************************)
\* the tables of the invocation: both families, runs 1..num_runs
RunTables == {t \in Tables : t[2] <= num_runs}

\* table t is built before table u in the loops of speed_processing and of
\* memory_processing: by run, the KEM table before the signature table
BuiltBefore(t, u) == t[2] < u[2] \/ (t[2] = u[2] /\ t[1] = "kem" /\ u[1] = "sig")

\* liboqs_avg.avg_mem() and avg_speed() have been invoked
AveragingInvoked == pc = "done"

\* C28: in liboqs_parse.process_tests the averaging methods are invoked only
\* after the speed and the memory table of every run and of both families
\* passed check_data_mismatch, with 3 * len(manifest) rows, and were
\* written; if any cardinality check fails, averaging is never invoked.
C28_AveragingAfterAllTables ==
    /\ (pc = "avg" \/ AveragingInvoked) =>
          /\ failed = {}
          /\ \A t \in RunTables :
                /\ <<"speed", t[1], t[2]>> \in passed
                /\ <<"mem", t[1], t[2]>> \in passed
                /\ IsWritten(speed_csv[t])
                /\ IsWritten(mem_csv[t])
                /\ Len(TableOf(speed_csv[t])) = Expected(t[1])
                /\ Len(TableOf(mem_csv[t])) = Expected(t[1])
    /\ failed # {} => (pc = "exit" /\ exit_code = 1)

\* averaging has run after two runs with signature manifests of two entries
C28_Witness ==
    /\ AveragingInvoked
    /\ num_runs = 2
    /\ Len(sig_algs) = 2
    /\ failed = {}
    /\ \A t \in RunTables : IsWritten(speed_csv[t]) /\ IsWritten(mem_csv[t])

HsExpectedFiles == Len(hs_sigs) * Len(hs_kems)

InitBase ==
    /\ bp_kind \in {"pqc", "classic"}
    /\ bp_run \in Runs
    /\ bp_outer \in Manifests
    /\ bp_inner \in Manifests
    /\ bp_i = 1
    /\ bp_j = 1
    /\ bp_df = <<>>
    /\ bp_src = <<>>
    /\ bp_damaged = 0
    /\ bp_pc = "start"
    /\ bp_csv = NotWritten
    /\ BpRestIdle

\* the statements ahead of the loops: in pqc_based_pre_processing the file
\* count check of run 1, then the empty dataframe
BpStart ==
    /\ bp_pc = "start"
    /\ \E actual_files \in {n \in {Len(bp_outer) * Len(bp_inner) - 1,
                                   Len(bp_outer) * Len(bp_inner),
                                   Len(bp_outer) * Len(bp_inner) + 1} : n >= 0} :
          bp_pc' = IF /\ bp_kind = "pqc"
                      /\ bp_run = 1
                      /\ FileCountMismatch(bp_outer, bp_inner, actual_files)
                   THEN "exit" ELSE "pair"
    /\ UNCHANGED <<bp_kind, bp_run, bp_outer, bp_inner, bp_i, bp_j, bp_df, bp_src,
                   bp_damaged, bp_csv>>
    /\ UNCHANGED bpRest

\* one pass of the inner loop: the first-use row, then the reuse row, each
\* through pd.DataFrame([current_row], columns=...), which raises unless the
\* row has one value per column
BpPair ==
    /\ bp_pc = "pair"
    /\ \E test_file \in {TextFile(TwoBlockLog)}
                        \cup (IF bp_damaged < MaxDamaged THEN DamagedBaseLogs ELSE {}) :
          LET outer == bp_outer[bp_i]
              inner == bp_inner[bp_j]
              row1 == BaseRow(outer, inner, test_file, FALSE)
              row2 == BaseRow(outer, inner, test_file, TRUE)
              last == bp_i = Len(bp_outer) /\ bp_j = Len(bp_inner)
          IN /\ bp_damaged' = IF test_file = TextFile(TwoBlockLog) THEN bp_damaged
                              ELSE bp_damaged + 1
             /\ IF ~CellsFit(row1, base_headers(bp_kind))
                THEN /\ bp_pc' = "raise"
                     /\ UNCHANGED <<bp_df, bp_src, bp_i, bp_j>>
                ELSE IF ~CellsFit(row2, base_headers(bp_kind))
                THEN /\ bp_pc' = "raise"
                     /\ bp_df' = Append(bp_df, row1)
                     /\ bp_src' = Append(bp_src, test_file)
                     /\ UNCHANGED <<bp_i, bp_j>>
                ELSE /\ bp_df' = bp_df \o <<row1, row2>>
                     /\ bp_src' = bp_src \o <<test_file, test_file>>
                     /\ bp_pc' = IF last THEN "write" ELSE "pair"
                     /\ IF bp_j < Len(bp_inner)
                        THEN bp_j' = bp_j + 1 /\ UNCHANGED bp_i
                        ELSE bp_j' = 1 /\ bp_i' = bp_i + 1
    /\ UNCHANGED <<bp_kind, bp_run, bp_outer, bp_inner, bp_csv>>
    /\ UNCHANGED bpRest

\* sig_metrics_df.to_csv / cipher_metrics_df.to_csv
BpWrite ==
    /\ bp_pc = "write"
    /\ bp_csv' = Written(to_csv(bp_df))
    /\ bp_pc' = "done"
    /\ UNCHANGED <<bp_kind, bp_run, bp_outer, bp_inner, bp_i, bp_j, bp_df, bp_src,
                   bp_damaged>>
    /\ UNCHANGED bpRest

NextBase == BpStart \/ BpPair \/ BpWrite

SpecBase == InitBase /\ [][NextBase]_vars

(***************************************************************************)
(* Vocabulary of the base table claim                                      *)
(***************************************************************************)
\* the k-th (outer, inner) pair in the order of the two nested loops
BpPairAt(k) ==
    <<bp_outer[((k - 1) \div Len(bp_inner)) + 1],
      bp_inner[((k - 1) % Len(bp_inner)) + 1]>>

\* the pairs whose pass of the inner loop has ended
BpPairsDone == (bp_i - 1) * Len(bp_inner) + (bp_j - 1)

\* df holds, for each of the first n pairs in manifest order, the first-use
\* row with an empty tag and then the reuse row tagged "*", one value per
\* column, both rows read from the same log
TwoRowsPerPair(df, n) ==
    /\ Len(df) = 2 * n
    /\ \A k \in 1..n :
          /\ SubSeq(df[2 * k - 1], 1, 3) = <<BpPairAt(k)[1], BpPairAt(k)[2], <<>>>>
          /\ SubSeq(df[2 * k], 1, 3) = <<BpPairAt(k)[1], BpPairAt(k)[2], <<"*">>>>
          /\ Len(df[2 * k - 1]) = Len(base_headers(bp_kind))
          /\ Len(df[2 * k]) = Len(base_headers(bp_kind))
          /\ bp_src[2 * k - 1] = bp_src[2 * k]
          /\ bp_src[2 * k] = TextFile(TwoBlockLog) =>
                /\ SubSeq(df[2 * k - 1], 4, 8) = FirstUseNumbers
                /\ SubSeq(df[2 * k], 4, 8) = ReuseNumbers

\* C26: pqc_based_pre_processing and classic_based_processing build, for
\* each (signature, KEM) or (cipher, classic algorithm) pair in manifest
\* order, exactly two consecutive rows, the first-use row with an empty
\* "Reused Session ID" tag and then the reuse row tagged "*", both read from
\* the same log file; a table that is written has exactly
\* 2 * |outer list| * |inner list| rows.
C26_TwoRowsPerPairInOrder ==
    /\ bp_pc \in {"pair", "write", "done"} => TwoRowsPerPair(bp_df, BpPairsDone)
    /\ IsWritten(bp_csv) =>
          /\ TwoRowsPerPair(TableOf(bp_csv), Len(bp_outer) * Len(bp_inner))
          /\ Len(TableOf(bp_csv)) = 2 * Len(bp_outer) * Len(bp_inner)

\* a table of two by two pairs is written, eight rows, two of them the
\* placeholder rows of a pair whose log is missing
C26_Witness ==
    /\ IsWritten(bp_csv)
    /\ Len(bp_outer) = 2
    /\ Len(bp_inner) = 2
    /\ Len(TableOf(bp_csv)) = 8
    /\ \E k \in 1..8 : bp_src[k] = MissingFile
    /\ \E k \in 1..8 : bp_src[k] = TextFile(TwoBlockLog)

====
